---------------------------- MODULE Spec2Model ----------------------------
(***************************************************************************)
(* State-machine model of the VS-Codex browser client.                     *)
(*                                                                         *)
(*   dashboard page   src/dist/js/app.js          (ping sampler)           *)
(*   work hub         src/static/js/monky-server.js, lines 358-1407        *)
(*   home hub         src/unnamed/part_001                                 *)
(*   shared helpers   src/static/js/monky-common.js                        *)
(*                                                                         *)
(* JavaScript runs one continuation at a time; every action below is one   *)
(* run-to-completion step: an event handler up to its first await, or the  *)
(* continuation that runs when an awaited promise settles.  Each page is a *)
(* script of its own, so each page has a specification of its own over the *)
(* variables of that page; the variables of the other pages stay put.      *)
(***************************************************************************)
EXTENDS Integers, Sequences, FiniteSets, Bags, TLC

VARIABLES
  \* ---- dashboard page (app.js) ----
  pingSeries,   \* let pingSeries = []            (app.js:3)
  now,          \* performance.now(), in half milliseconds
  pings,        \* ping() invocations suspended at an await
  sweeps,       \* pingAll() invocations suspended at an await
  nPing,        \* number of ping() invocations so far (the call ids)
  nSweep,       \* number of pingAll() invocations so far (the sweep ids)
  limit,        \* the run's budget, one of Profiles
  used,         \* faults and overlapping calls so far
  started,      \* history: the ping() invocations in call order
  appended,     \* history: every sample pushed, in push order
  rejected,     \* history: ids of ping() invocations that threw
  \* ---- hub pages (monky-server.js:358-1407, part_001) ----
  hub,          \* which hub script runs: "work" or "home"
  booted,       \* the DOMContentLoaded handler has run
  activeTab,    \* the .monky-tab panel that carries the class `active`
  navActive,    \* the nav button that carries the class `active`
  tabsLoaded,   \* state.tabsLoaded
  tasks,        \* handler invocations suspended at an await (a bag)
  vault,        \* state.vault: pin, unlocked, items
  secureVisible,\* the vault's secure section is shown (hidden = false)
  seen,         \* history: tabs activateTab was called for
  lastAccepted, \* history: the PIN of the last unlock the backend accepted
  ev,           \* history: what the last step did
  \* ---- the HTTP helper (monky-common.js:1-29) ----
  call,         \* one fetchJSON invocation: its arguments, request, outcome
  \* ---- one action of a page and what it left behind ----
  run,          \* the page, the action, its suspended calls, its effects
  \* ---- parts of the pages followed on their own ----
  canvas,       \* drawSparkline: the series, the canvas size, the calls made
  toast,        \* showToast: the containers, their toasts, the pending timers
  cache,        \* the projects tab: the cached lists against the backend's
  chat          \* the assistant tab: threads, messages, input, requests

dashVars == <<pingSeries, now, pings, sweeps, nPing, nSweep, limit,
              used, started, appended, rejected>>

tabVars == <<booted, activeTab, navActive, tabsLoaded, seen>>

vaultVars == <<vault, secureVisible, lastAccepted>>

hubVars == <<hub, tasks, ev>>

fetchVars == <<call>>

runVars == <<run>>

partVars == <<canvas, toast, cache, chat>>

vars == <<dashVars, hubVars, tabVars, vaultVars, fetchVars, runVars, partVars>>

-----------------------------------------------------------------------------
(* Bounds of the model *)

\* The nominal run of the dashboard is one pingAll after the other, each
\* request answered 2xx within the same half millisecond.  A run leaves it
\* by faults (a clock advance, a non-2xx answer, a network failure) and by
\* calls (a direct ping, a pingAll started while another call is suspended).
\* Every sample stays in the state for 40 pushes, so TLC cannot enumerate
\* long runs with many such events: a run is either long, with one fault
\* anywhere and no overlapping call, or a burst of few pings with several
\* faults and overlapping calls in any mix.

\* ping() invocations of a long run: enough to overflow the series
MaxPings == 42
\* ping() invocations of a burst
MaxBurst == 4
\* faults and overlapping calls of a burst
MaxEvents == 2

\* handler invocations of a hub page suspended at the same time
MaxInFlight == 2

Profiles == {[pings |-> MaxPings, events |-> 1, overlap |-> FALSE],
             [pings |-> MaxBurst, events |-> MaxEvents, overlap |-> TRUE]}

-----------------------------------------------------------------------------
(* Dashboard: the ping sampler of app.js *)

\* for(const p of ['openai','openrouter','qwen','ollama','genesis'])
Providers == <<"openai", "openrouter", "qwen", "ollama", "genesis">>

\* if(pingSeries.length>40) pingSeries.shift();
SeriesCap == 40

\* Clock advances the environment may make, in half milliseconds
Jumps == {1, 4}

\* Math.round(x) = floor(x + 0.5), on a value given in half milliseconds
MathRound(h) == (h + 1) \div 2

ElapsedSwapped(t0, t1) == MathRound(t0 - t1)
\* const ms = Math.round(t1 - t0);
Elapsed(t0, t1) == MathRound(t1 - t0)

\* resp.ok ? ms : -1
Sample(ok, ms) == IF ok THEN ms ELSE -1

PushNoEvict(series, v) == Append(series, v)
PushEvictNewest(series, v) ==
  LET s == Append(series, v)
  IN  IF Len(s) > SeriesCap THEN SubSeq(s, 1, Len(s) - 1) ELSE s
\* pingSeries.push(v); if(pingSeries.length>40) pingSeries.shift();
Push(series, v) ==
  LET s == Append(series, v)
  IN  IF Len(s) > SeriesCap THEN Tail(s) ELSE s

DashInit ==
  /\ pingSeries = <<>>
  /\ now = 0
  /\ pings = {}
  /\ sweeps = {}
  /\ nPing = 0
  /\ nSweep = 0
  /\ limit \in Profiles
  /\ used = 0
  /\ started = <<>>
  /\ appended = <<>>
  /\ rejected = {}

\* The clock moves on between two continuations.
Tick(d) ==
  /\ used < limit.events
  /\ now' = now + d
  /\ used' = used + 1
  /\ UNCHANGED <<pingSeries, pings, sweeps, nPing, nSweep, limit,
                 started, appended, rejected>>

\* ping(provider) up to `await fetch`: t0 is taken, the request leaves.
StartPing(p, sw) ==
  /\ nPing < limit.pings
  /\ nPing' = nPing + 1
  /\ pings' = pings \cup {[id |-> nPing + 1, provider |-> p, sweep |-> sw,
                           pc |-> "fetch", t0 |-> now, ms |-> 0, ok |-> FALSE]}
  /\ started' = Append(started, [call |-> nPing + 1, provider |-> p, sweep |-> sw])

\* A direct call of ping(provider), e.g. from a button.
Ping(p) ==
  /\ limit.overlap /\ used < limit.events
  /\ used' = used + 1
  /\ StartPing(p, 0)
  /\ UNCHANGED <<pingSeries, now, sweeps, nSweep, limit, appended,
                 rejected>>

\* No ping() and no pingAll() is suspended.
Idle == pings = {} /\ sweeps = {}

\* pingAll() up to its first await: the first provider's ping starts.
PingAll ==
  /\ ~Idle => (limit.overlap /\ used < limit.events)
  /\ used' = IF Idle THEN used ELSE used + 1
  /\ StartPing(Providers[1], nSweep + 1)
  /\ nSweep' = nSweep + 1
  /\ sweeps' = sweeps \cup {[id |-> nSweep + 1, idx |-> 1, pc |-> "await"]}
  /\ UNCHANGED <<pingSeries, now, limit, appended, rejected>>

\* `await fetch` resolves with a response (2xx or not): t1 and ms are
\* taken, and ping suspends again at `await resp.json().catch(...)`.
FetchResolve(c, ok) ==
  /\ c \in pings /\ c.pc = "fetch"
  /\ ~ok => used < limit.events
  /\ used' = IF ok THEN used ELSE used + 1
  /\ pings' = (pings \ {c}) \cup
        {[c EXCEPT !.pc = "json", !.ms = Elapsed(c.t0, now), !.ok = ok]}
  /\ UNCHANGED <<pingSeries, now, sweeps, nPing, nSweep, limit,
                 started, appended, rejected>>

\* `await fetch` rejects (network failure).  ping has no try/catch: the
\* call throws, and so does the pingAll that awaits it.
FetchReject(c) ==
  /\ c \in pings /\ c.pc = "fetch"
  /\ used < limit.events
  /\ used' = used + 1
  /\ pings' = pings \ {c}
  /\ rejected' = rejected \cup {c.id}
  /\ sweeps' = {s \in sweeps : s.id # c.sweep}
  /\ UNCHANGED <<pingSeries, now, nPing, nSweep, limit, started,
                 appended>>

\* `await resp.json().catch(()=>({}))` settles: the sample is pushed, the
\* series trimmed, the sparkline redrawn, and ping returns.
JsonSettle(c) ==
  /\ c \in pings /\ c.pc = "json"
  /\ pingSeries' = Push(pingSeries, Sample(c.ok, c.ms))
  /\ appended' = Append(appended, [call |-> c.id, provider |-> c.provider,
                                   sweep |-> c.sweep, v |-> Sample(c.ok, c.ms)])
  /\ pings' = pings \ {c}
  /\ sweeps' = {IF s.id = c.sweep THEN [s EXCEPT !.pc = "resume"] ELSE s : s \in sweeps}
  /\ UNCHANGED <<now, nPing, nSweep, limit, used, started,
                 rejected>>

SweepReadyNoAwait(s) == TRUE
\* await ping(p): the loop goes on once the ping it started has returned
SweepReady(s) == s.pc = "resume"

\* pingAll after `await ping(p)`: the next provider, or the end of the loop.
SweepNext(s) ==
  /\ s \in sweeps /\ SweepReady(s)
  /\ IF s.idx < Len(Providers)
       THEN /\ StartPing(Providers[s.idx + 1], s.id)
            /\ sweeps' = (sweeps \ {s}) \cup {[s EXCEPT !.idx = s.idx + 1, !.pc = "await"]}
       ELSE /\ sweeps' = sweeps \ {s}
            /\ UNCHANGED <<pings, nPing, started>>
  /\ UNCHANGED <<pingSeries, now, nSweep, limit, used,
                 appended, rejected>>

\* The dashboard page runs no hub script.
HubOff ==
  /\ hub = "none"
  /\ booted = FALSE
  /\ activeTab = "none"
  /\ navActive = "none"
  /\ tabsLoaded = <<>>
  /\ tasks = EmptyBag
  /\ seen = {}
  /\ ev = <<>>
  /\ vault = <<>>
  /\ secureVisible = FALSE
  /\ lastAccepted = ""

\* The dashboard script touches none of the hub pages' state.
HubIdle == UNCHANGED <<hubVars, tabVars, vaultVars, fetchVars, runVars, partVars>>

DashNext ==
  \/ (\E d \in Jumps : Tick(d)) /\ HubIdle
  \/ (\E i \in 1..Len(Providers) : Ping(Providers[i])) /\ HubIdle
  \/ PingAll /\ HubIdle
  \/ (\E c \in pings : \E ok \in BOOLEAN : FetchResolve(c, ok)) /\ HubIdle
  \/ (\E c \in pings : FetchReject(c)) /\ HubIdle
  \/ (\E c \in pings : JsonSettle(c)) /\ HubIdle
  \/ (\E s \in sweeps : SweepNext(s)) /\ HubIdle

\* The dashboard page when its script has loaded.
\* No fetchJSON invocation is followed on its own.
FetchOff == call = <<>>

\* No single action is followed on its own.
RunOff == run = <<>>

\* The parts followed on their own are not followed.
PartsOff == canvas = <<>> /\ toast = <<>> /\ cache = <<>> /\ chat = <<>>

DashStart == DashInit /\ HubOff /\ FetchOff /\ RunOff /\ PartsOff

SpecDash == DashStart /\ [][DashNext]_vars

-----------------------------------------------------------------------------
(* Claims about the ping sampler *)

LastN(seq, n) ==
  IF Len(seq) <= n THEN seq ELSE SubSeq(seq, Len(seq) - n + 1, Len(seq))

Values(log) == [i \in 1..Len(log) |-> log[i].v]

\* ping() invocations that have returned or thrown
Ended == (1..nPing) \ {c.id : c \in pings}

PushesOf(id) == {i \in DOMAIN appended : appended[i].call = id}

SweepStarts(s) == SelectSeq(started, LAMBDA e : e.sweep = s)
SweepPushes(s) == SelectSeq(appended, LAMBDA e : e.sweep = s)

\* C1: in every reachable state, whatever the interleaving of direct pings
\* and sweeps, pingSeries holds at most 40 entries.
C1_SeriesAtMost40 == Len(pingSeries) <= 40

\* More than 40 samples were pushed and the series is full.
C1_Witness == Len(appended) > 40 /\ Len(pingSeries) = 40

\* C2: pingSeries is the last min(n, 40) of the n samples pushed so far, in
\* push order: eviction removes the oldest and keeps every newer one.
C2_MostRecentInOrder == pingSeries = LastN(Values(appended), 40)

\* An eviction happened, and the evicted sample differs from the newest.
C2_Witness == Len(appended) > 40 /\ appended[1].v # appended[Len(appended)].v

\* C3: every ping() invocation that has ended pushed exactly one sample
\* (a failure of the request, network failures included, pushes -1).
C3_EveryPingPushesOne ==
  \A id \in Ended :
    /\ Cardinality(PushesOf(id)) = 1
    /\ id \in rejected => \A i \in PushesOf(id) : appended[i].v = -1

\* C4: every entry of pingSeries is the sentinel -1 or a non-negative
\* integer number of milliseconds.
C4_SentinelOrLatency ==
  \A i \in DOMAIN pingSeries : pingSeries[i] = -1 \/ pingSeries[i] \in Nat

\* The series holds a failure and a latency of at least one millisecond.
C4_Witness ==
  \E i, j \in DOMAIN pingSeries : pingSeries[i] = -1 /\ pingSeries[j] > 0

\* C5: a sweep starts its pings in the fixed provider order, starts one
\* only after the one before has returned (at most one request of the sweep
\* is in flight), and its samples are pushed in that order.
C5_SweepSequential ==
  \A s \in 1..nSweep :
    LET st == SweepStarts(s)
        ap == SweepPushes(s)
    IN  /\ Len(st) <= Len(Providers)
        /\ \A i \in DOMAIN st : st[i].provider = Providers[i]
        /\ Cardinality({c \in pings : c.sweep = s}) <= 1
        /\ \A i \in DOMAIN st : i < Len(st) => PushesOf(st[i].call) # {}
        /\ Len(ap) <= Len(st)
        /\ \A i \in DOMAIN ap : ap[i].call = st[i].call

\* Two samples of one sweep were pushed with a sample of another call
\* between them.
C5_Witness ==
  \E i, j, k \in DOMAIN appended :
    /\ i < j /\ j < k
    /\ appended[i].sweep # 0
    /\ appended[k].sweep = appended[i].sweep
    /\ appended[j].sweep # appended[i].sweep

\* A sweep ran to its end.
C5_FullSweep == \E s \in 1..nSweep : Len(SweepPushes(s)) = Len(Providers)

-----------------------------------------------------------------------------
(* Hub pages: tabs, loaders, mutations and the vault *)

\* TAB_NAMES (monky-server.js:360) and the keys of state.tabsLoaded
\* (part_001:5).
TAB_NAMES(h) ==
  IF h = "work"
    THEN {"home", "assistant", "projects", "kpi", "data", "vault", "dev"}
    ELSE {"home", "assistant", "projects", "budget", "sensors", "vault", "dev"}

\* The flags state.tabsLoaded ever holds: one per tab, and the home hub's
\* assistant_init, which is absent (falsy) until initAssistant sets it.
FlagNames(h) ==
  TAB_NAMES(h) \cup (IF h = "home" THEN {"assistant_init"} ELSE {})

\* The switch of activateTab: the loader each tab starts.
LoaderOf(h, tab) ==
  CASE tab = "home"      -> "loadHome"
    [] tab = "assistant" -> "initAssistant"
    [] tab = "projects"  -> "refreshProjectsSection"
    [] tab = "kpi"       -> "refreshKpi"
    [] tab = "data"      -> "refreshData"
    [] tab = "budget"    -> "refreshBudget"
    [] tab = "sensors"   -> "refreshSensors"
    [] tab = "dev"       -> "refreshDev"
    [] OTHER             -> "none"

\* The facade calls a loader awaits first (all of them, for the loaders
\* that are one await or one Promise.all).
Requests(loader) ==
  CASE loader = "loadHome"               -> {"dashboard"}
    [] loader = "loadEnv"                -> {"env"}
    [] loader = "initAssistant"          -> {"assistant.providers"}
    [] loader = "refreshProjectsSection" -> {"projects.list", "tasks.list", "notes.list"}
    [] loader = "refreshKpi"             -> {"kpi.list"}
    [] loader = "refreshData"            -> {"rag.list", "dataAssets.list"}
    [] loader = "refreshBudget"          -> {"budgetSummary"}
    [] loader = "refreshSensors"         -> {"sensors.list"}
    [] loader = "refreshDev"             -> {"dev.status", "settings.config"}
    [] loader = "refreshDevConfig"       -> {"settings.config"}
    [] loader = "loadVaultItems"         -> {"vault.list"}
    [] OTHER                             -> {}

\* The flags a loader sets itself when it succeeds.
FlagsSetBy(h, loader) ==
  CASE h = "work" /\ loader = "loadHome"      -> {"home"}
    [] h = "work" /\ loader = "refreshDev"    -> {"dev"}
    [] h = "work" /\ loader = "initAssistant" -> {"assistant"}
    [] h = "home" /\ loader = "initAssistant" -> {"assistant_init", "assistant"}
    [] OTHER                                  -> {}

\* The guard at the top of initAssistant.
InitAssistantGuard(h, flags) ==
  IF h = "work" THEN flags["assistant"] ELSE flags["assistant_init"]

\* How often refreshThreads may find the thread list empty and call itself
\* again (the backend decides; the model stops it here).
MaxDepth == 1

\* The actions the user starts on one page after its startup.
MaxActions == 2

\* PINs typed into the unlock form, and item lists the backend answers.
Pins == {"1111", "2222"}

ItemLists == {<<>>, <<"a">>, <<"a", "b">>}

Range(f) == {f[i] : i \in DOMAIN f}

NoEvent ==
  [what |-> "init", op |-> "-", arg |-> "-", pin |-> "-", sent |-> {},
   toasts |-> <<>>, done |-> FALSE, mutOk |-> FALSE, refetch |-> {},
   listed |-> FALSE, resp |-> <<>>]

\* A handler invocation suspended at an await: op is the handler, arg its
\* argument, stage the await it is suspended at, load the loader it is
\* inside (if any), pend the facade calls the await waits for, pin the PIN
\* read from the form when the handler started.
NewTask(op, arg, stage, load, pend, pin) ==
  [op |-> op, arg |-> arg, stage |-> stage, load |-> load,
   pend |-> pend, pin |-> pin, mutOk |-> FALSE, refetch |-> {}, depth |-> 0]

\* Invocations in the same state are interchangeable: tasks is a bag.
InFlight == BagToSet(tasks)

Room == BagCardinality(tasks) < MaxInFlight

Start(ts) == tasks (+) SetToBag(ts)

Swap(t, u) == (tasks (-) SetToBag({t})) (+) SetToBag({u})

\* A request as the backend sees it: the endpoint, and the PIN in its body
\* ("-" for the endpoints that take none).
Req(ep, pin) == [ep |-> ep, pin |-> pin]

Plain(eps) == {Req(e, "-") : e \in eps}

\* The page as its markup gives it, before any script has run: no panel
\* has been toggled, the home nav button carries `active` or none does,
\* and the vault's secure section is hidden.
InitialDom ==
  /\ activeTab = "none"
  /\ navActive \in {"none", "home"}
  /\ secureVisible = FALSE

HubInit ==
  /\ hub \in {"work", "home"}
  /\ booted = FALSE
  /\ InitialDom
  /\ tabsLoaded = [f \in FlagNames(hub) |-> FALSE]
  /\ tasks = EmptyBag
  /\ seen = {}
  /\ ev = NoEvent
  /\ vault = [pin |-> "", unlocked |-> FALSE, items |-> <<>>]
  /\ lastAccepted = ""

\* The dashboard script does not run on a hub page.
DashOff ==
  /\ pingSeries = <<>>
  /\ now = 0
  /\ pings = {}
  /\ sweeps = {}
  /\ nPing = 0
  /\ nSweep = 0
  /\ limit = [pings |-> 0, events |-> 0, overlap |-> FALSE]
  /\ used = 0
  /\ started = <<>>
  /\ appended = <<>>
  /\ rejected = {}

DashIdle == UNCHANGED <<dashVars, fetchVars, runVars, partVars>>

ShouldLoadAlways(flags, tab) == TRUE

\* activateTab's test of the flag.
ShouldLoad(flags, tab) == ~flags[tab]

\* The async call activateTab makes for the tab: the loader up to its first
\* await.  initAssistant returns at once when its own guard holds.
LoaderTasks(tab) ==
  LET loader == LoaderOf(hub, tab) IN
  IF loader = "none" \/ (loader = "initAssistant" /\ InitAssistantGuard(hub, tabsLoaded))
    THEN {}
    ELSE {NewTask("activateTab", tab,
                  IF loader = "initAssistant" THEN "providers" ELSE "load",
                  loader, Requests(loader), "-")}

\* activateTab(tab), called with the tasks the caller started before it.
ActivateTab(tab, before) ==
  LET load   == ShouldLoad(tabsLoaded, tab)
      starts == IF load THEN LoaderTasks(tab) ELSE {} IN
  /\ activeTab' = tab
  /\ tasks' = Start(before \cup starts)
  /\ BagCardinality(tasks') <= MaxInFlight
  /\ tabsLoaded' = IF load THEN [tabsLoaded EXCEPT ![tab] = TRUE] ELSE tabsLoaded
  /\ seen' = seen \cup {tab}
  /\ ev' = NoEvent

\* The DOMContentLoaded handler: loadEnv(), activateTab('home'), and the
\* registration of the listeners.
Boot ==
  /\ ~booted
  /\ booted' = TRUE
  /\ ActivateTab("home",
                 {NewTask("loadEnv", "-", "load", "loadEnv", Requests("loadEnv"), "-")})
  /\ UNCHANGED <<hub, navActive, vaultVars>>

\* A click on a nav button (setupNav).
NavClick(tab) ==
  /\ booted
  /\ tab \in TAB_NAMES(hub)
  /\ navActive # tab
  /\ navActive' = tab
  /\ ActivateTab(tab, {})
  /\ UNCHANGED <<hub, booted, vaultVars>>

\* The toast a handler shows after its last await, when it got that far.
ToastAfter(h, op) ==
  CASE op \in {"unlock", "createVaultItem"}                               -> <<"success">>
    [] h = "home" /\ op \in {"createProject", "createTask", "createNote"} -> <<"success">>
    [] OTHER                                                              -> <<>>

\* The buttons of the dev tab that load: dev-refresh and dev-reload-config.
Buttons == {"refreshDev", "refreshDevConfig"}

\* ev records the steps of the form handlers (the mutations and the vault
\* unlock); the steps of the loads that activateTab, the startup and the
\* dev buttons start leave it blank.
Logged(op) == op \notin {"activateTab", "loadEnv"} \cup Buttons

StoreItemsNot(v, resp) == v

\* loadVaultItems: state.vault.items = the response.
StoreItems(v, resp) == [v EXCEPT !.items = resp]

\* The handler of t ends in this step: its invocation leaves the page.
Finish(t, what, toasts, listed, resp) ==
  /\ tasks' = tasks (-) SetToBag({t})
  /\ ev' = IF Logged(t.op)
             THEN [NoEvent EXCEPT !.what = what, !.op = t.op, !.arg = t.arg,
                                  !.pin = t.pin, !.toasts = toasts, !.done = TRUE,
                                  !.mutOk = t.mutOk \/ what = "mutated",
                                  !.refetch = t.refetch,
                                  !.listed = listed, !.resp = resp]
             ELSE NoEvent

\* A facade call of a loader that is one await or one Promise.all settles.
\* A rejection lands in the loader's own catch; the last fulfilment runs
\* the rest of the loader's try block.  The caller then runs to its end.
LoadSettle(t, e, ok, resp) ==
  /\ t \in InFlight /\ t.stage = "load" /\ e \in t.pend
  /\ (e # "vault.list" \/ ~ok) => resp = <<>>
  /\ IF ~ok
       THEN /\ Finish(t, "loadFailed", <<"danger">> \o ToastAfter(hub, t.op), FALSE, <<>>)
            /\ UNCHANGED <<tabsLoaded, vault>>
       ELSE IF t.pend # {e}
         THEN /\ tasks' = Swap(t, [t EXCEPT !.pend = t.pend \ {e}])
              /\ ev' = NoEvent
              /\ UNCHANGED <<tabsLoaded, vault>>
         ELSE /\ tabsLoaded' = [f \in DOMAIN tabsLoaded |->
                                  tabsLoaded[f] \/ f \in FlagsSetBy(hub, t.load)]
              /\ vault' = IF t.load = "loadVaultItems" THEN StoreItems(vault, resp) ELSE vault
              /\ Finish(t, "loaded",
                        (IF t.load = "refreshDevConfig" THEN <<"success">> ELSE <<>>)
                          \o ToastAfter(hub, t.op),
                        t.load = "loadVaultItems", resp)
  /\ UNCHANGED <<hub, booted, activeTab, navActive, seen, secureVisible, lastAccepted>>

\* initAssistant: providers, ensureThreadExists (threads, createThread when
\* there is none), refreshThreads (threads; when there is none,
\* ensureThreadExists and refreshThreads again), loadMessages.
AssistantNext(t, empty) ==
  CASE t.stage = "providers"                 -> <<"ensure.threads", "assistant.threads">>
    [] t.stage = "ensure.threads" /\ empty   -> <<"ensure.create", "assistant.createThread">>
    [] t.stage = "ensure.threads" /\ ~empty  -> <<"refresh.threads", "assistant.threads">>
    [] t.stage = "ensure.create"             -> <<"refresh.threads", "assistant.threads">>
    [] t.stage = "refresh.threads" /\ empty  -> <<"ensure.threads", "assistant.threads">>
    [] t.stage = "refresh.threads" /\ ~empty -> <<"messages", "assistant.messages">>
    [] OTHER                                 -> <<"end", "-">>

AssistantSettle(t, ok, empty) ==
  /\ t \in InFlight /\ t.load = "initAssistant" /\ t.stage # "load"
  /\ empty => (ok /\ t.stage \in {"ensure.threads", "refresh.threads"})
  /\ (empty /\ t.stage = "refresh.threads") => t.depth < MaxDepth
  /\ IF t.stage = "messages"
       THEN \* loadMessages catches its own failure; initAssistant goes on
            /\ tabsLoaded' = [f \in DOMAIN tabsLoaded |->
                                tabsLoaded[f] \/ f \in FlagsSetBy(hub, t.load)]
            /\ Finish(t, "loaded", IF ok THEN <<>> ELSE <<"danger">>, FALSE, <<>>)
       ELSE IF ~ok
         THEN /\ Finish(t, "loadFailed", <<"danger">>, FALSE, <<>>)
              /\ UNCHANGED tabsLoaded
         ELSE LET nx == AssistantNext(t, empty) IN
              /\ tasks' = Swap(t, [t EXCEPT !.stage = nx[1], !.pend = {nx[2]},
                                             !.depth = IF empty /\ t.stage = "refresh.threads"
                                                         THEN t.depth + 1 ELSE t.depth])
              /\ ev' = NoEvent
              /\ UNCHANGED tabsLoaded
  /\ UNCHANGED <<hub, booted, activeTab, navActive, seen, vaultVars>>

Button(b) ==
  /\ booted /\ activeTab = "dev"
  /\ Room
  /\ tasks' = Start({NewTask(b, "-", "load", b, Requests(b), "-")})
  /\ ev' = NoEvent
  /\ UNCHANGED <<hub, tabVars, vaultVars>>

\* The mutating handlers of the tabs: form submits, the update and delete
\* callbacks of the rendered lists, and the dev tab's config save.
Mutations(h) ==
  {"createProject", "createTask", "createNote", "updateProject", "updateTask",
   "createVaultItem", "deleteVaultItem", "saveConfig"}
  \cup (IF h = "work"
          THEN {"deleteProject", "deleteTask", "deleteNote", "uploadKpi", "removeKpi",
                "createRagDoc", "createAsset", "removeRagDoc", "removeAsset"}
          ELSE {"importBudget"})

\* The tab whose panel holds the handler's form, list or button.
TabOf(op) ==
  CASE op \in {"createProject", "createTask", "createNote", "updateProject",
               "updateTask", "deleteProject", "deleteTask", "deleteNote"} -> "projects"
    [] op \in {"uploadKpi", "removeKpi"}                                  -> "kpi"
    [] op \in {"createRagDoc", "createAsset", "removeRagDoc", "removeAsset"} -> "data"
    [] op = "importBudget"                                                -> "budget"
    [] op \in {"createVaultItem", "deleteVaultItem", "unlock"}            -> "vault"
    [] OTHER                                                              -> "dev"

\* The facade call that mutates.
MutEndpoint(op) ==
  CASE op = "createProject"   -> "projects.create"
    [] op = "createTask"      -> "tasks.create"
    [] op = "createNote"      -> "notes.create"
    [] op = "updateProject"   -> "projects.update"
    [] op = "updateTask"      -> "tasks.update"
    [] op = "deleteProject"   -> "projects.remove"
    [] op = "deleteTask"      -> "tasks.remove"
    [] op = "deleteNote"      -> "notes.remove"
    [] op = "uploadKpi"       -> "kpi.upload"
    [] op = "removeKpi"       -> "kpi.remove"
    [] op = "createRagDoc"    -> "rag.create"
    [] op = "createAsset"     -> "dataAssets.create"
    [] op = "removeRagDoc"    -> "rag.remove"
    [] op = "removeAsset"     -> "dataAssets.remove"
    [] op = "importBudget"    -> "budget.import"
    [] op = "createVaultItem" -> "vault.create"
    [] op = "deleteVaultItem" -> "vault.remove"
    [] OTHER                  -> "settings.update"

\* The loader a handler awaits after its mutating call has resolved.
RefreshAfter(h, op) ==
  CASE TabOf(op) = "projects" -> "refreshProjectsSection"
    [] TabOf(op) = "kpi"      -> "refreshKpi"
    [] TabOf(op) = "data"     -> "refreshData"
    [] TabOf(op) = "budget"   -> "refreshBudget"
    [] TabOf(op) = "vault"    -> "loadVaultItems"
    [] OTHER                  -> "none"

\* What a handler tests before its mutating call: a file in the upload
\* form, JSON.parse of the config text, confirm() of a delete.
GuardOf(op) ==
  CASE op \in {"uploadKpi", "importBudget"} -> "file"
    [] op = "saveConfig"                    -> "json"
    [] op \in {"deleteProject", "deleteTask", "deleteNote", "removeKpi",
               "removeRagDoc", "removeAsset", "deleteVaultItem"} -> "confirm"
    [] OTHER                                -> "none"

\* The toast shown when the test fails (confirm() shows none).
BlockedToast(guard) ==
  CASE guard = "file" -> <<"warn">>
    [] guard = "json" -> <<"danger">>
    [] OTHER          -> <<>>

\* The toast a handler shows between its mutating call and its re-fetch.
ToastBefore(h, op) ==
  CASE op \in {"uploadKpi", "createRagDoc", "createAsset", "importBudget", "saveConfig"}
         -> <<"success">>
    [] h = "work" /\ op \in {"createProject", "createTask", "createNote"}
         -> <<"success">>
    [] OTHER -> <<>>

\* The PIN a vault list, create or delete request carries.
RequestPin(v) == v.pin

\* The requests a loader sends, as the backend sees them.
Sent(loader, v) ==
  IF loader = "loadVaultItems"
    THEN {Req("vault.list", RequestPin(v))}
    ELSE Plain(Requests(loader))

\* A form submit, a click on a rendered item's control, or the save button,
\* for the handlers outside the vault tab.
Submit(op, go) ==
  /\ booted
  /\ op \in Mutations(hub) /\ TabOf(op) # "vault"
  /\ activeTab = TabOf(op)
  /\ GuardOf(op) = "none" => go
  /\ IF go
       THEN /\ Room
            /\ tasks' = Start({NewTask(op, "-", "mutate", "none", {MutEndpoint(op)}, "-")})
            /\ ev' = [NoEvent EXCEPT !.what = "submit", !.op = op,
                                     !.sent = Plain({MutEndpoint(op)})]
       ELSE /\ tasks' = tasks
            /\ ev' = [NoEvent EXCEPT !.what = "blocked", !.op = op, !.done = TRUE,
                                     !.toasts = BlockedToast(GuardOf(op))]
  /\ UNCHANGED <<hub, tabVars, vaultVars>>

VaultFormOpenAlways(v) == TRUE

\* The test the vault form's submit handler makes before anything else.
VaultFormOpen(v) == v.unlocked

\* Submit of the vault form: refused with a warning while locked.
VaultSubmit ==
  /\ booted /\ activeTab = "vault"
  /\ IF VaultFormOpen(vault)
       THEN /\ Room
            /\ tasks' = Start({NewTask("createVaultItem", "-", "mutate", "none",
                                       {"vault.create"}, "-")})
            /\ ev' = [NoEvent EXCEPT !.what = "submit", !.op = "createVaultItem",
                                     !.sent = {Req("vault.create", RequestPin(vault))}]
       ELSE /\ tasks' = tasks
            /\ ev' = [NoEvent EXCEPT !.what = "blocked", !.op = "createVaultItem",
                                     !.done = TRUE, !.toasts = <<"warn">>]
  /\ UNCHANGED <<hub, tabVars, vaultVars>>

\* deleteVaultItem(id), from the Delete button renderVault gave the item.
VaultDelete(item, go) ==
  /\ booted /\ activeTab = "vault"
  /\ item \in Range(vault.items)
  /\ IF go
       THEN /\ Room
            /\ tasks' = Start({NewTask("deleteVaultItem", item, "mutate", "none",
                                       {"vault.remove"}, "-")})
            /\ ev' = [NoEvent EXCEPT !.what = "submit", !.op = "deleteVaultItem",
                                     !.arg = item,
                                     !.sent = {Req("vault.remove", RequestPin(vault))}]
       ELSE /\ tasks' = tasks
            /\ ev' = [NoEvent EXCEPT !.what = "blocked", !.op = "deleteVaultItem",
                                     !.arg = item, !.done = TRUE]
  /\ UNCHANGED <<hub, tabVars, vaultVars>>

\* The mutating call of a handler settles.
MutateSettle(t, ok) ==
  /\ t \in InFlight /\ t.stage = "mutate"
  /\ LET r == RefreshAfter(hub, t.op) IN
     IF ~ok
       THEN Finish(t, "mutateFailed", <<"danger">>, FALSE, <<>>)
       ELSE IF r = "none"
         THEN Finish(t, "mutated", ToastBefore(hub, t.op), FALSE, <<>>)
         ELSE /\ tasks' = Swap(t, [t EXCEPT !.stage = "load", !.load = r,
                                             !.pend = Requests(r), !.mutOk = TRUE,
                                             !.refetch = Requests(r)])
              /\ ev' = [NoEvent EXCEPT !.what = "mutated", !.op = t.op, !.arg = t.arg,
                                       !.mutOk = TRUE, !.refetch = Requests(r),
                                       !.toasts = ToastBefore(hub, t.op),
                                       !.sent = Sent(r, vault)]
  /\ UNCHANGED <<hub, tabVars, vaultVars>>

\* Submit of the unlock form: the PIN is read before the await.
Unlock(pin) ==
  /\ booted /\ activeTab = "vault"
  /\ Room
  /\ tasks' = Start({NewTask("unlock", "-", "auth", "none", {"vault.auth"}, pin)})
  /\ ev' = [NoEvent EXCEPT !.what = "submit", !.op = "unlock", !.pin = pin,
                           !.sent = {Req("vault.auth", pin)}]
  /\ UNCHANGED <<hub, tabVars, vaultVars>>

AcceptUnlockNoPin(v, pin) == [v EXCEPT !.unlocked = TRUE]

\* The branch taken when res.ok is truthy.
AcceptUnlock(v, pin) == [v EXCEPT !.pin = pin, !.unlocked = TRUE]

RejectUnlockKeepsPin(v, pin) == [v EXCEPT !.pin = pin]

\* The branch taken when res.ok is falsy.
RejectUnlock(v, pin) == v

SecureAfterRejectShown(visible) == TRUE

\* The hidden attribute of the secure section after that branch.
SecureAfterReject(visible) == visible

\* The auth request settles: res is "ok" (fulfilled, res.ok truthy),
\* "notok" (fulfilled, res.ok falsy) or "fail" (rejected).
AuthSettle(t, res) ==
  /\ t \in InFlight /\ t.stage = "auth"
  /\ CASE res = "ok" ->
            /\ vault' = AcceptUnlock(vault, t.pin)
            /\ secureVisible' = TRUE
            /\ lastAccepted' = t.pin
            /\ tasks' = Swap(t, [t EXCEPT !.stage = "load", !.load = "loadVaultItems",
                                             !.pend = Requests("loadVaultItems")])
            /\ ev' = [NoEvent EXCEPT !.what = "authAccepted", !.op = "unlock",
                                     !.pin = t.pin,
                                     !.sent = Sent("loadVaultItems", vault')]
       [] res = "notok" ->
            /\ vault' = RejectUnlock(vault, t.pin)
            /\ secureVisible' = SecureAfterReject(secureVisible)
            /\ Finish(t, "authRejected", <<"danger">>, FALSE, <<>>)
            /\ UNCHANGED lastAccepted
       [] OTHER ->
            /\ Finish(t, "authFailed", <<"danger">>, FALSE, <<>>)
            /\ UNCHANGED vaultVars
  /\ UNCHANGED <<hub, tabVars>>

\* A hub page in use: started, every tab visited and its first load
\* settled (the assistant's with success), the user on one of the tabs.
\* The handlers of different tabs share no state, so a run stays on the
\* tab it starts on.
HubReady ==
  /\ hub \in {"work", "home"}
  /\ booted = TRUE
  /\ activeTab \in TAB_NAMES(hub)
  /\ navActive = activeTab
  /\ tabsLoaded = [f \in FlagNames(hub) |-> TRUE]
  /\ tasks = EmptyBag
  /\ seen = TAB_NAMES(hub)
  /\ ev = NoEvent
  /\ vault = [pin |-> "", unlocked |-> FALSE, items |-> <<>>]
  /\ secureVisible = FALSE
  /\ lastAccepted = ""

HubNext ==
  \/ (\E op \in Mutations(hub) : \E go \in BOOLEAN : Submit(op, go)) /\ DashIdle
  \/ VaultSubmit /\ DashIdle
  \/ (\E item \in {"a", "b"} : \E go \in BOOLEAN : VaultDelete(item, go)) /\ DashIdle
  \/ (\E pin \in Pins : Unlock(pin)) /\ DashIdle
  \/ (\E b \in Buttons : Button(b)) /\ DashIdle
  \/ (\E t \in InFlight : \E ok \in BOOLEAN : MutateSettle(t, ok)) /\ DashIdle
  \/ (\E t \in InFlight : \E res \in {"ok", "notok", "fail"} : AuthSettle(t, res)) /\ DashIdle
  \/ (\E t \in InFlight : \E e \in t.pend : \E ok \in BOOLEAN : \E resp \in ItemLists :
        LoadSettle(t, e, ok, resp)) /\ DashIdle

HubStart == HubReady /\ DashOff /\ FetchOff /\ RunOff /\ PartsOff

SpecHub == HubStart /\ [][HubNext]_vars

TabsNext ==
  \/ Boot /\ DashIdle
  \/ (\E tab \in TAB_NAMES(hub) : NavClick(tab)) /\ DashIdle
  \/ (\E t \in InFlight : \E e \in t.pend : \E ok \in BOOLEAN :
        LoadSettle(t, e, ok, <<>>)) /\ DashIdle
  \/ (\E t \in InFlight : \E ok, empty \in BOOLEAN : AssistantSettle(t, ok, empty)) /\ DashIdle

\* A hub page when its script has loaded, before DOMContentLoaded.
TabsStart == HubInit /\ DashOff /\ FetchOff /\ RunOff /\ PartsOff

SpecTabs == TabsStart /\ [][TabsNext]_vars

-----------------------------------------------------------------------------
(* Claims about the hub pages *)

\* A step that calls activateTab: the startup, or a click on a nav button
\* that is not the active one.
Activation == booted' # booted \/ navActive' # navActive

\* C6: a call of activateTab for a tab that was activated before starts no
\* loader (it sends nothing and changes only the active panel), loaders
\* that activateTab starts appear only in a tab's first activation, and a
\* tabsLoaded flag that is true stays true.
C6_LoadOnlyOnFirstActivation ==
  [][/\ \A f \in DOMAIN tabsLoaded : tabsLoaded[f] => tabsLoaded'[f]
     /\ (Activation /\ activeTab' \in seen) =>
          /\ tasks' = tasks
          /\ tabsLoaded' = tabsLoaded
          /\ vault' = vault
     /\ \A t \in BagToSet(tasks') :
          (t.op = "activateTab" /\ CopiesIn(t, tasks') > CopiesIn(t, tasks)
             /\ t.pend = Requests(t.load) /\ t.stage \in {"load", "providers"}
             /\ t.depth = 0)
            => (Activation /\ activeTab' = t.arg /\ t.arg \notin seen)
    ]_vars

\* home is active again after another tab was: activateTab('home') ran a
\* second time.
C6_Witness ==
  /\ booted /\ activeTab = "home" /\ seen # {"home"}
  /\ \E t \in InFlight : t.op = "activateTab" /\ t.arg # "home"

\* The requests that fetch all the data of a tab.
TabData(h, tab) ==
  IF tab = "vault" THEN Requests("loadVaultItems") ELSE Requests(LoaderOf(h, tab))

\* C7: when a mutating handler whose mutating request succeeded ends, it
\* has requested all the data of its tab again, and no handler requests
\* it before its mutating request has resolved.
C7_MutationRefetches ==
  /\ (ev.done /\ ev.mutOk) =>
       (ev.refetch # {} /\ ev.refetch = TabData(hub, TabOf(ev.op)))
  /\ \A t \in InFlight : t.stage = "mutate" => (t.refetch = {} /\ ~t.mutOk)

\* C8: after the step that takes an accepted auth response, the vault is
\* unlocked, holds the submitted PIN, the secure section is shown and a
\* vault list request with that PIN has been sent; after the step that
\* takes that request's response, state.vault.items is the response.
C8_UnlockAccepted ==
  /\ ev.what = "authAccepted" =>
       /\ vault.unlocked
       /\ vault.pin = ev.pin
       /\ secureVisible
       /\ ev.sent = {Req("vault.list", ev.pin)}
       /\ \E t \in InFlight : t.op = "unlock" /\ t.pin = ev.pin /\ t.pend = {"vault.list"}
  /\ (ev.op = "unlock" /\ ev.listed) => vault.items = ev.resp

C8_Witness ==
  /\ ev.op = "unlock" /\ ev.listed /\ ev.resp = <<"a", "b">>
  /\ vault.pin = "2222"

\* C9: the step that takes a refused or failed auth response changes
\* nothing of state.vault nor the visibility of the secure section, sends
\* nothing, starts nothing and shows a danger toast; a vault that was never
\* unlocked has its section hidden.
C9_UnlockRefused ==
  /\ [](~vault.unlocked => ~secureVisible)
  /\ [][ev'.what \in {"authRejected", "authFailed"} =>
          /\ vault' = vault
          /\ secureVisible' = secureVisible
          /\ ev'.sent = {}
          /\ \A t \in BagToSet(tasks') : CopiesIn(t, tasks') <= CopiesIn(t, tasks)
          /\ "danger" \in Range(ev'.toasts)
       ]_vars

C9_Witness ==
  /\ ev.what = "authRejected" /\ ~vault.unlocked /\ ~secureVisible
  /\ \E t \in InFlight : t.op = "unlock"

\* The endpoints that take the vault PIN after the unlock.
VaultEndpoints == {"vault.list", "vault.create", "vault.remove"}

\* C10: every vault list, create and delete request carries state.vault.pin,
\* which, once the vault is unlocked, is the PIN of the last accepted
\* unlock, whatever refused or failed attempts came after it.
C10_RequestsCarryPin ==
  /\ \A r \in ev.sent : r.ep \in VaultEndpoints =>
       (vault.unlocked /\ r.pin = vault.pin /\ r.pin = lastAccepted)
  /\ vault.unlocked => (vault.pin = lastAccepted /\ lastAccepted \in Pins)

\* a delete is sent while the list request of an earlier accepted unlock,
\* made with another PIN, is still pending
C10_Witness ==
  /\ ev.op = "deleteVaultItem" /\ ev.sent # {}
  /\ \E t \in InFlight : t.op = "unlock" /\ t.stage = "load" /\ t.pin # lastAccepted

\* C25: no vault list, create or delete request is sent while
\* state.vault.unlocked is false, a vault form submit while it is false
\* sends nothing and shows a warning toast, the secure section is visible
\* only if it is true, and once true it never becomes false again.
C25_VaultStaysLocked ==
  /\ [](/\ \A r \in ev.sent : r.ep \in VaultEndpoints => vault.unlocked
        /\ secureVisible => vault.unlocked
        /\ (ev.op = "createVaultItem" /\ ~vault.unlocked) =>
             (ev.what = "blocked" /\ ev.sent = {} /\ ev.toasts = <<"warn">>))
  /\ [][/\ vault.unlocked => vault'.unlocked
        /\ (~vault.unlocked /\ ev'.op = "createVaultItem") =>
             \A t \in BagToSet(tasks') : CopiesIn(t, tasks') <= CopiesIn(t, tasks)
       ]_vars

\* the vault form is submitted while the vault is locked and an unlock
\* request is still unanswered
C25_Witness ==
  /\ ev.op = "createVaultItem" /\ ev.what = "blocked"
  /\ ~vault.unlocked
  /\ \E t \in InFlight : t.op = "unlock"

-----------------------------------------------------------------------------
(* The HTTP helper: fetchJSON of monky-common.js *)

\* Text (a JavaScript string: a body, a status text, a message) is a
\* sequence of tokens: a run of plain characters (s), a JSON string
\* literal (x is the text between its quotes), a JSON number (s), a
\* punctuation mark (s), white space.
Chars(c) == [k |-> "chars", s |-> c, x |-> <<>>]

Lit(text) == [k |-> "lit", s |-> "", x |-> text]

Num(c) == [k |-> "num", s |-> c, x |-> <<>>]

Punct(c) == [k |-> "punct", s |-> c, x |-> <<>>]

Space == [k |-> "space", s |-> " ", x |-> <<>>]

\* The text of a string of plain characters ("" is the empty text).
Str(c) == IF c = "" THEN <<>> ELSE <<Chars(c)>>

\* JavaScript values: null, undefined, numbers, strings (s is the text),
\* plain objects and arrays of scalars, FormData.  kv lists an object's
\* members in order (an array's elements under the keys "0", "1", ...).
JNull == [t |-> "null", s |-> <<>>, kv |-> <<>>]

JUndefined == [t |-> "undefined", s |-> <<>>, kv |-> <<>>]

JNum(c) == [t |-> "number", s |-> <<Num(c)>>, kv |-> <<>>]

JStr(text) == [t |-> "string", s |-> text, kv |-> <<>>]

JObj(members) == [t |-> "object", s |-> <<>>, kv |-> members]

JArr(members) == [t |-> "array", s |-> <<>>, kv |-> members]

JForm == [t |-> "formdata", s |-> <<>>, kv |-> <<>>]

\* typeof v === 'object' (true of null, objects, arrays and FormData)
TypeofObject(v) == v.t \in {"null", "object", "array", "formdata"}

\* The truthiness `&&`, `||`, `!` and `if` test.
Truthy(v) ==
  CASE v.t \in {"null", "undefined"} -> FALSE
    [] v.t = "string"                -> v.s # <<>>
    [] v.t = "number"                -> v.s # <<Num("0")>>
    [] OTHER                         -> TRUE

\* v[key]: the member, or undefined.
Get(v, key) ==
  IF v.t = "object" /\ \E i \in DOMAIN v.kv : v.kv[i][1] = key
    THEN v.kv[CHOOSE i \in DOMAIN v.kv : v.kv[i][1] = key][2]
    ELSE JUndefined

\* a || b
Or(a, b) == IF Truthy(a) THEN a ELSE b

\* JSON.stringify: no white space, members in order.
ScalarText(v) ==
  CASE v.t = "string" -> <<Lit(v.s)>>
    [] v.t = "number" -> v.s
    [] OTHER          -> <<Chars("null")>>

RECURSIVE MembersText(_, _)
MembersText(kv, keyed) ==
  IF kv = <<>> THEN <<>>
  ELSE (IF keyed THEN <<Lit(Str(kv[1][1])), Punct(":")>> ELSE <<>>)
         \o ScalarText(kv[1][2])
         \o (IF Len(kv) > 1 THEN <<Punct(",")>> ELSE <<>>)
         \o MembersText(Tail(kv), keyed)

Stringify(v) ==
  CASE v.t = "object"   -> <<Punct("{")>> \o MembersText(v.kv, TRUE) \o <<Punct("}")>>
    [] v.t = "array"    -> <<Punct("[")>> \o MembersText(v.kv, FALSE) \o <<Punct("]")>>
    [] v.t = "formdata" -> <<Punct("{"), Punct("}")>>
    [] OTHER            -> ScalarText(v)

RECURSIVE Join(_)
\* Array.prototype.join(','), which String(array) is.
Join(kv) ==
  IF kv = <<>> THEN <<>>
  ELSE kv[1][2].s \o (IF Len(kv) > 1 THEN <<Punct(",")>> ELSE <<>>) \o Join(Tail(kv))

\* String(v), as new Error(v) and fetch convert a value that is no string.
ToText(v) ==
  CASE v.t = "string"   -> v.s
    [] v.t = "number"   -> v.s
    [] v.t = "object"   -> Str("[object Object]")
    [] v.t = "formdata" -> Str("[object FormData]")
    [] v.t = "array"    -> Join(v.kv)
    [] OTHER            -> Str(v.t)

\* JSON.parse.  White space between tokens is skipped.
Strip(text) == SelectSeq(text, LAMBDA tok : tok.k # "space")

IsScalar(tok) ==
  tok.k \in {"lit", "num"} \/ tok = Chars("null")

ParseScalar(tok) ==
  CASE tok.k = "lit" -> JStr(tok.x)
    [] tok.k = "num" -> JNum(tok.s)
    [] OTHER         -> JNull

Keys == <<"0", "1", "2">>

NoParse == [ok |-> FALSE, kv |-> <<>>]

RECURSIVE ParseMembers(_, _, _)
\* The members of an object (keyed) or the elements of an array, n-th on.
ParseMembers(toks, keyed, n) ==
  LET w    == IF keyed THEN 3 ELSE 1
      key  == IF keyed THEN (IF toks[1].x = <<>> THEN "" ELSE toks[1].x[1].s)
                       ELSE Keys[n]
      head == <<key, ParseScalar(toks[w])>> IN
  IF Len(toks) < w \/ ~IsScalar(toks[w]) THEN NoParse
  ELSE IF keyed /\ (toks[1].k # "lit" \/ toks[2] # Punct(":")) THEN NoParse
  ELSE IF Len(toks) = w THEN [ok |-> TRUE, kv |-> <<head>>]
  ELSE IF toks[w + 1] # Punct(",") \/ Len(toks) = w + 1 THEN NoParse
  ELSE LET rest == ParseMembers(SubSeq(toks, w + 2, Len(toks)), keyed, n + 1) IN
       IF rest.ok THEN [ok |-> TRUE, kv |-> <<head>> \o rest.kv] ELSE NoParse

Inner(toks) == SubSeq(toks, 2, Len(toks) - 1)

\* [ok |-> whether JSON.parse returns, v |-> what it returns]
JsonParse(text) ==
  LET toks == Strip(text)
      bad  == [ok |-> FALSE, v |-> JUndefined] IN
  IF toks = <<>> THEN bad
  ELSE IF Len(toks) = 1
    THEN IF IsScalar(toks[1]) THEN [ok |-> TRUE, v |-> ParseScalar(toks[1])] ELSE bad
  ELSE IF toks[1] = Punct("{") /\ toks[Len(toks)] = Punct("}")
    THEN IF Len(toks) = 2 THEN [ok |-> TRUE, v |-> JObj(<<>>)]
         ELSE LET m == ParseMembers(Inner(toks), TRUE, 1) IN
              IF m.ok THEN [ok |-> TRUE, v |-> JObj(m.kv)] ELSE bad
  ELSE IF toks[1] = Punct("[") /\ toks[Len(toks)] = Punct("]")
    THEN IF Len(toks) = 2 THEN [ok |-> TRUE, v |-> JArr(<<>>)]
         ELSE LET m == ParseMembers(Inner(toks), FALSE, 1) IN
              IF m.ok THEN [ok |-> TRUE, v |-> JArr(m.kv)] ELSE bad
  ELSE bad

\* obj[key] = val on a plain object: replaces the member or adds it last.
Set(obj, key, val) ==
  IF \E i \in DOMAIN obj.kv : obj.kv[i][1] = key
    THEN JObj([i \in DOMAIN obj.kv |->
                 IF obj.kv[i][1] = key THEN <<key, val>> ELSE obj.kv[i]])
    ELSE JObj(Append(obj.kv, <<key, val>>))

JsonType == JStr(Str("application/json"))

SerializeNever(body, typed) == FALSE

\* Line 7, inside the test of line 5: the body is serialized when it is
\* no string and line 5 decided to set the Content-Type.
Serialize(body, typed) == typed /\ body.t # "string"

\* Lines 2-10: the options fetch is called with.  options is the caller's
\* bag [method, headers, body], undefined standing for an absent member.
Prepare(options) ==
  LET headers == IF Truthy(options.headers) THEN options.headers ELSE JObj(<<>>)
      typed   == /\ Truthy(options.body)
                 /\ options.body.t # "formdata"
                 /\ ~Truthy(Get(headers, "Content-Type")) IN
  [method  |-> IF options.method = JUndefined THEN JStr(Str("GET")) ELSE options.method,
   headers |-> IF typed THEN Set(headers, "Content-Type", JsonType) ELSE headers,
   body    |-> IF Serialize(options.body, typed)
                 THEN JStr(Stringify(options.body)) ELSE options.body]

CallerOptionsAliased(options) ==
  [options EXCEPT !.headers = IF Truthy(options.headers)
                                THEN Prepare(options).headers ELSE options.headers]

\* Lines 2-3 copy: the caller's bag after the call.
CallerOptions(options) == options

\* Lines 14-21: the payload of a response text.
Payload(text) ==
  IF text = <<>> THEN JNull
  ELSE LET p == JsonParse(text) IN IF p.ok THEN p.v ELSE JStr(text)

MessageErrorFirst(payload, statusText) ==
  IF Truthy(payload) /\ TypeofObject(payload)
    THEN ToText(Or(Or(Get(payload, "error"), Get(payload, "detail")),
                   JStr(Stringify(payload))))
    ELSE statusText

MessageRawFirst(payload, statusText) ==
  IF Truthy(payload)
    THEN ToText(Or(Or(Get(payload, "detail"), Get(payload, "error")), payload))
    ELSE statusText

MessageStatusOnly(payload, statusText) ==
  IF Truthy(payload) /\ TypeofObject(payload)
    THEN ToText(Or(Or(Get(payload, "detail"), Get(payload, "error")),
                   JStr(statusText)))
    ELSE statusText

\* Lines 23-25: the message of the error of a non-success status.
Message(payload, statusText) ==
  IF Truthy(payload) /\ TypeofObject(payload)
    THEN ToText(Or(Or(Get(payload, "detail"), Get(payload, "error")),
                   JStr(Stringify(payload))))
    ELSE statusText

ReturnedRaw(payload) == payload

\* Line 28: payload ?? {}
Returned(payload) ==
  IF payload.t \in {"null", "undefined"} THEN JObj(<<>>) ELSE payload

\* The arguments the model calls fetchJSON with.
Methods == {JUndefined, JStr(Str("POST"))}

HeaderBags ==
  {JUndefined, JObj(<<>>),
   JObj(<<<<"Accept", JStr(Str("text/html"))>>>>),
   JObj(<<<<"Content-Type", JStr(Str("text/plain"))>>>>),
   JObj(<<<<"Accept", JStr(Str("text/html"))>>, <<"Content-Type", JsonType>>>>)}

A1 == JObj(<<<<"a", JNum("1")>>>>)

Bodies ==
  {JUndefined, JStr(<<>>), JStr(Stringify(A1)), JStr(Str("plain")), A1, JObj(<<>>),
   JObj(<<<<"pin", JStr(Str("1111"))>>, <<"name", JNull>>>>),
   JArr(<<<<"0", JNum("1")>>, <<"1", JStr(Str("x"))>>>>), JForm}

\* The responses the backend answers with.
Statuses ==
  {[ok |-> TRUE, statusText |-> Str("OK")],
   [ok |-> FALSE, statusText |-> Str("Not Found")],
   [ok |-> FALSE, statusText |-> Str("Internal Server Error")]}

Texts ==
  {<<>>, Str("oops"), <<Space>>, <<Chars("null")>>, <<Num("1")>>, <<Num("0")>>,
   <<Lit(Str("hi"))>>, <<Lit(<<>>)>>,
   <<Punct("{"), Punct("}")>>, <<Punct("{"), Lit(Str("a"))>>,
   Stringify(A1), <<Punct("{"), Space, Lit(Str("a")), Punct(":"), Space, Num("1"), Punct("}")>>,
   Stringify(JArr(<<<<"0", JNum("1")>>>>)),
   Stringify(JObj(<<<<"detail", JStr(Str("not found"))>>>>)),
   Stringify(JObj(<<<<"error", JStr(Str("bad"))>>>>)),
   Stringify(JObj(<<<<"error", JStr(Str("bad"))>>, <<"detail", JStr(Str("not found"))>>>>)),
   Stringify(JObj(<<<<"detail", JStr(<<>>)>>, <<"error", JStr(Str("bad"))>>>>)),
   Stringify(JObj(<<<<"detail", JStr(<<>>)>>, <<"error", JStr(<<>>)>>>>)),
   Stringify(JObj(<<<<"detail", JNull>>, <<"a", JNum("1")>>>>))}

NoResponse == [ok |-> FALSE, statusText |-> <<>>, text |-> <<>>]

NoRequest == [method |-> JUndefined, headers |-> JUndefined, body |-> JUndefined]

\* A call of fetchJSON(url, options), before its first statement.
FetchInit ==
  call \in [pc : {"start"},
            options : [method : Methods, headers : HeaderBags, body : Bodies],
            caller : {NoRequest}, request : {NoRequest}, response : {NoResponse},
            outcome : {"pending"}, value : {JUndefined}, message : {<<>>}]

\* Lines 1-12: up to `await fetch(url, opts)`.
FetchCall ==
  /\ call.pc = "start"
  /\ call' = [call EXCEPT !.pc = "fetch", !.request = Prepare(call.options),
                          !.caller = CallerOptions(call.options)]

\* fetch settles: with a response, or with a rejection that fetchJSON
\* lets through.
FetchSettle(answered, status) ==
  /\ call.pc = "fetch"
  /\ call' = IF answered
               THEN [call EXCEPT !.pc = "text",
                                 !.response = [ok |-> status.ok,
                                               statusText |-> status.statusText,
                                               text |-> <<>>]]
               ELSE [call EXCEPT !.pc = "done", !.outcome = "rejected",
                                 !.message = Str("Failed to fetch")]

\* response.text() settles; lines 14-28 run.
TextSettle(read, text) ==
  /\ call.pc = "text"
  /\ call' = IF ~read
               THEN [call EXCEPT !.pc = "done", !.outcome = "rejected",
                                 !.message = Str("body stream error")]
               ELSE IF call.response.ok
                 THEN [call EXCEPT !.pc = "done", !.outcome = "returned",
                                   !.response.text = text,
                                   !.value = Returned(Payload(text))]
                 ELSE [call EXCEPT !.pc = "done", !.outcome = "threw",
                                   !.response.text = text,
                                   !.message = Message(Payload(text),
                                                       call.response.statusText)]

\* The hub and dashboard scripts are not followed.
PagesOff == DashOff /\ HubOff /\ RunOff /\ PartsOff

PagesIdle == UNCHANGED <<dashVars, hubVars, tabVars, vaultVars, runVars, partVars>>

FetchNext ==
  \/ FetchCall /\ PagesIdle
  \/ (\E answered \in BOOLEAN : \E status \in Statuses : FetchSettle(answered, status))
       /\ PagesIdle
  \/ (\E read \in BOOLEAN : \E text \in Texts : TextSettle(read, text)) /\ PagesIdle

FetchStart == FetchInit /\ PagesOff

SpecFetch == FetchStart /\ [][FetchNext]_vars

(***************************************************************************)
(* Claims about fetchJSON                                                  *)
(***************************************************************************)
Threw == call.pc = "done" /\ call.outcome = "threw"

ReturnedOk == call.pc = "done" /\ call.outcome = "returned"

Prepared == call.pc # "start"

\* A member that is a non-empty string.
Filled(v) == v.t = "string" /\ v.s # <<>>

ContentType(headers) == Get(headers, "Content-Type")

\* C11: when a non-success response body parses to a JSON object, the
\* message of the thrown error is the object's detail member if that is
\* present and non-empty, and otherwise its error member if that is present
\* and non-empty.
C11_StructuredMessage ==
  LET parsed == JsonParse(call.response.text)
      detail == Get(parsed.v, "detail")
      error  == Get(parsed.v, "error") IN
  (Threw /\ parsed.ok /\ parsed.v.t = "object") =>
    /\ Filled(detail) => call.message = detail.s
    /\ (~Filled(detail) /\ Filled(error)) => call.message = error.s

C11_Witness ==
  /\ Threw
  /\ call.response.text =
       Stringify(JObj(<<<<"error", JStr(Str("bad"))>>,
                        <<"detail", JStr(Str("not found"))>>>>))
  /\ call.message = Str("not found")

\* C12: when a non-success response body is no structured JSON (text that
\* does not parse, or an empty body), the message of the thrown error is the
\* HTTP status text.
C12_UnstructuredMessage ==
  (Threw /\ ~JsonParse(call.response.text).ok) =>
    call.message = call.response.statusText

C12_Witness ==
  /\ Threw
  /\ call.response.text = Str("oops")
  /\ call.response.statusText = Str("Internal Server Error")
  /\ call.message = Str("Internal Server Error")

\* C13 as stated: with a non-empty body that has no detail or error member
\* (a JSON object lacking both, or raw text) the message is that raw payload,
\* and the status text only when there is no payload.
C13_RawPayloadMessage ==
  LET parsed == JsonParse(call.response.text)
      named  == /\ parsed.ok
                /\ \/ Filled(Get(parsed.v, "detail"))
                   \/ Filled(Get(parsed.v, "error")) IN
  Threw =>
    /\ (call.response.text # <<>> /\ ~named) => call.message = call.response.text
    /\ call.response.text = <<>> => call.message = call.response.statusText

\* C13: the message is the detail member, else the error member, else for a
\* JSON object or array the JSON serialization of the parsed payload, else
\* (raw text, a JSON scalar, no body) the HTTP status text.
C13_MessageOrder ==
  LET parsed == JsonParse(call.response.text)
      detail == Get(parsed.v, "detail")
      error  == Get(parsed.v, "error") IN
  Threw =>
    call.message =
      IF parsed.ok /\ parsed.v.t \in {"object", "array"}
        THEN IF Filled(detail) THEN detail.s
             ELSE IF Filled(error) THEN error.s
             ELSE Stringify(parsed.v)
        ELSE call.response.statusText

C13_Witness ==
  /\ Threw
  /\ call.response.text =
       <<Punct("{"), Space, Lit(Str("a")), Punct(":"), Space, Num("1"), Punct("}")>>
  /\ call.message = Stringify(A1)
  /\ call.message # call.response.text

\* C14: when the body is an object that is neither a string nor a FormData
\* and the options carry no Content-Type header, the request carries
\* Content-Type: application/json and the JSON serialization of the body.
C14_ObjectBodySerialized ==
  (/\ Prepared
   /\ call.options.body.t \in {"object", "array"}
   /\ ContentType(call.options.headers) = JUndefined) =>
    /\ ContentType(call.request.headers) = JsonType
    /\ call.request.body = JStr(Stringify(call.options.body))

C14_Witness ==
  /\ Prepared
  /\ call.options.body = A1
  /\ call.options.headers = JObj(<<<<"Accept", JStr(Str("text/html"))>>>>)
  /\ call.request.body = JStr(Stringify(A1))
  /\ ContentType(call.request.headers) = JsonType

\* C15: every body that is neither a string nor a FormData is serialized to
\* a JSON string before the request is issued, whatever the other options
\* are, a caller-supplied Content-Type included.
C15_EveryObjectBodySerialized ==
  (Prepared /\ call.options.body.t \in {"object", "array"}) =>
    call.request.body = JStr(Stringify(call.options.body))

\* C16: the Content-Type header is set only when the caller supplied none
\* and a body that is no FormData is present; a caller-supplied Content-Type
\* is sent unchanged, a FormData body is passed unchanged with no header
\* added, nothing is added without a body, and the caller's options and
\* headers are as they were before the call.
C16_ContentTypeOnlyWhenAbsent ==
  LET given == ContentType(call.options.headers)
      sent  == ContentType(call.request.headers) IN
  Prepared =>
    /\ sent # given => /\ given = JUndefined
                       /\ call.options.body.t \notin {"undefined", "formdata"}
                       /\ sent = JsonType
    /\ given # JUndefined => sent = given
    /\ call.options.body.t = "formdata" =>
         call.request.body = call.options.body /\ sent = given
    /\ call.options.body.t = "undefined" => sent = given
    /\ call.caller = call.options

C16_Witness ==
  /\ Prepared
  /\ call.options.headers = JObj(<<<<"Accept", JStr(Str("text/html"))>>>>)
  /\ call.options.body = JStr(Str("plain"))
  /\ ContentType(call.request.headers) = JsonType
  /\ ContentType(call.caller.headers) = JUndefined

\* C17 as stated: a success status returns the parsed JSON when the body is
\* valid JSON, the raw text when it is non-empty and no valid JSON, an empty
\* object when it is empty, and never null or undefined.
C17_ReturnsParsed ==
  LET parsed == JsonParse(call.response.text) IN
  ReturnedOk =>
    /\ call.value = IF parsed.ok THEN parsed.v
                    ELSE IF call.response.text # <<>> THEN JStr(call.response.text)
                    ELSE JObj(<<>>)
    /\ call.value.t \notin {"null", "undefined"}

\* C17: a success status returns the parsed value when the body is valid
\* JSON other than the literal null, the raw text when it is non-empty and no
\* valid JSON, an empty object when it is empty or the JSON literal null, and
\* never null or undefined.
C17_ReturnsParsedOrEmpty ==
  LET parsed == JsonParse(call.response.text) IN
  ReturnedOk =>
    /\ call.value = IF parsed.ok /\ parsed.v # JNull THEN parsed.v
                    ELSE IF parsed.ok \/ call.response.text = <<>> THEN JObj(<<>>)
                    ELSE JStr(call.response.text)
    /\ call.value.t \notin {"null", "undefined"}

C17_Witness ==
  /\ ReturnedOk
  /\ call.response.text = <<Chars("null")>>
  /\ call.value = JObj(<<>>)

(***************************************************************************)
(* One action of a page, from its start to the end of its last             *)
(* continuation: which awaits sit in which try block, what each assigns to *)
(* `state`, which listeners it registers.  One action runs at a time here; *)
(* the interleavings of the hub's actions are those of SpecHub.            *)
(***************************************************************************)
Pages == {"work", "home", "server", "dashboard"}

Hubs == {"work", "home"}

H(op) == [op |-> op, arg |-> "-"]

\* An await of facade calls (one call, or the calls of one Promise.all).
\* catch says where a rejection lands: "handler" is the try block of the
\* function the action started, "own" the try block of the function the
\* handler awaits here (the handler then goes on), "none" no try block.
\* writes are the fields of `state` assigned when the await has fulfilled;
\* after and listen are the assignments and the listener registrations of
\* the code that follows the awaited function; spawn are the functions
\* called next that catch for themselves.  opt marks a call made only when
\* the list fetched before it was empty, its assignment is made either way.
\* render names the loader whose render calls follow the assignments.
Await(eps, catch, writes) ==
  [eps |-> eps, catch |-> catch, writes |-> writes, after |-> {},
   listen |-> {}, spawn |-> {}, opt |-> FALSE, render |-> "none"]

\* The synchronous part of an event handler that awaits nothing itself.
Sync(writes, listen, spawn) ==
  [eps |-> {}, catch |-> "none", writes |-> writes, after |-> {},
   listen |-> listen, spawn |-> spawn, opt |-> FALSE, render |-> "none"]

\* The facade calls of the loaders: those of Requests, and the server
\* page's and the thread view's.
Calls(loader) ==
  CASE loader = "loadMessages"  -> {"assistant.messages"}
    [] loader = "loadStatus"    -> {"dev.status"}
    [] loader = "loadConfig"    -> {"settings.config"}
    [] loader = "loadProviders" -> {"assistant.providers"}
    [] OTHER                    -> Requests(loader)

\* The fields of `state` a loader assigns when its calls have fulfilled.
Writes(page, loader) ==
  CASE loader = "loadEnv"                -> {"env"}
    [] loader = "loadHome"               -> IF page = "work"
                                              THEN {"dashboard", "tabsLoaded.home"}
                                              ELSE {"dashboard"}
    [] loader = "refreshProjectsSection" -> {"projects", "tasks", "notes"}
    [] loader = "refreshKpi"             -> {"kpi"}
    [] loader = "refreshData"            -> {"ragDocs", "assets"}
    [] loader = "refreshBudget"          -> {"budget"}
    [] loader = "refreshSensors"         -> {"sensors"}
    [] loader = "refreshDev"             -> IF page = "work" THEN {"tabsLoaded.dev"} ELSE {}
    [] loader = "loadVaultItems"         -> {"vault.items"}
    [] loader = "loadMessages"           -> {"assistant.threadId", "assistant.messages"}
    [] loader = "loadStatus"             -> {"status"}
    [] loader = "loadConfig"             -> {"config"}
    [] loader = "loadProviders"          -> {"providers"}
    [] OTHER                             -> {}

Loaders ==
  {"loadEnv", "loadHome", "refreshProjectsSection", "refreshKpi", "refreshData",
   "refreshBudget", "refreshSensors", "refreshDev", "refreshDevConfig",
   "loadVaultItems", "loadMessages", "loadStatus", "loadConfig", "loadProviders"}

\* A loader awaited by a handler: its own try block catches.
Nested(page, loader) ==
  [Await(Calls(loader), "own", Writes(page, loader)) EXCEPT !.render = loader]

\* What a loader's render calls put in the document once it has assigned
\* its fields, as pairs of an element and the value it is drawn from; have
\* are the fields of `state` that hold a loaded value at that moment.  The
\* status and the config responses are taken to carry storage and server.
Renders(page, loader, have) ==
  CASE loader = "none" -> {}
    [] loader = "loadStatus" /\ page = "server" ->
         {<<"server-status-body", "status">>, <<"storage", "status">>,
          <<"server-host", IF "config" \in have THEN "config" ELSE "local">>}
    [] loader = "loadConfig" /\ page = "server" ->
         {<<"server-config", "config">>, <<"credentials", "config">>,
          <<"storage", "config">>}
    [] loader = "refreshDev" ->
         {<<"dev-status", "dev.status">>, <<"dev-config", "settings.config">>}
    [] OTHER ->
         {<<w, w>> : w \in Writes(page, loader)
                            \ {"tabsLoaded." \o f : f \in FlagNames(page)}}

\* An element shows what was drawn on it last.
Paint(dom, drawn) ==
  {p \in dom : \A q \in drawn : q[1] # p[1]} \cup drawn

\* initAssistant with ensureThread(Exists) and refreshThreads inlined (the
\* call refreshThreads makes to itself on an empty list is left to
\* AssistantSettle).
InitAssistant(page) ==
  <<Await({"assistant.providers"}, "handler",
          {"assistant.providers", "assistant.provider"}),
    Await({"assistant.threads"}, "handler", {}),
    [Await({"assistant.createThread"}, "handler", {"assistant.threadId"})
       EXCEPT !.opt = TRUE],
    Await({"assistant.threads"}, "handler",
          {"assistant.threads", "assistant.threadId"}),
    [Nested(page, "loadMessages")
       EXCEPT !.after = {"tabsLoaded.assistant"}
                        \cup (IF page = "home" THEN {"tabsLoaded.assistant_init"} ELSE {}),
              !.listen = {"assistant"}]>>

\* The handlers of the server page that make one call and keep nothing.
ServerCalls(op) ==
  CASE op = "pingProvider"     -> "assistant.ping"
    [] op = "pingAllProviders" -> "assistant.pingAll"
    [] op = "testStorage"      -> "storage.test"
    [] op = "sendTestRequest"  -> "assistant.test"
    [] op = "backupDatabase"   -> "dev.backup"
    [] OTHER                   -> "dev.restore"

\* The functions of the dashboard script: fetch and resp.json() in no try
\* block, but for refreshModels.
DashboardCalls(op) ==
  CASE op = "refreshModels" -> Await({"/models"}, "own", {})
    [] op = "sendMessage"   -> Await({"/chat"}, "none", {})
    [] op = "ping"          -> Await({"/ping"}, "none", {})
    [] op = "testStorage"   -> Await({"/storage/test"}, "none", {})
    [] OTHER                -> Await({"/config"}, "none", {})

\* The awaits of the dashboard's startup function and of its handlers.
DashboardProgram(h) ==
  IF h.op = "startup"
    THEN <<Await({"/config"}, "none", {}), DashboardCalls("refreshModels"),
           [Await({"/uptime"}, "none", {}) EXCEPT !.listen = {"page"}]>>
    ELSE <<DashboardCalls(h.op)>>

\* The awaits of the server page's DOMContentLoaded handler (loadAll) and
\* of its handlers.
ServerProgram(h) ==
  CASE h.op = "startup" ->
         <<Sync({}, {"page"}, {H("loadStatus"), H("loadConfig"), H("loadEnv"),
                               H("loadProviders")})>>
    [] h.op \in Loaders -> <<[Nested("server", h.op) EXCEPT !.catch = "handler"]>>
    [] h.op = "saveCredentials" ->
         <<[Await({"settings.update"}, "handler", {})
              EXCEPT !.spawn = {H("loadConfig"), H("loadProviders")}]>>
    [] h.op = "saveConfig" ->
         <<Await({"settings.update"}, "handler", {}), Nested("server", "loadConfig")>>
    [] OTHER -> <<Await({ServerCalls(h.op)}, "handler", {})>>

\* The awaits of a hub's DOMContentLoaded handler and of its handlers.
\* activateTab is the first activation of the tab; unlock is the unlock the
\* backend accepts or fails (AuthSettle has the refused one).
HubProgram(page, h) ==
  CASE h.op = "startup" ->
         <<Sync({"tabsLoaded.home"}, {"page"}, {H("loadEnv"), H("loadHome")})>>
    [] h.op = "activateTab" ->
         <<Sync({"tabsLoaded." \o h.arg}, {},
                IF LoaderOf(page, h.arg) = "none" THEN {} ELSE {H(LoaderOf(page, h.arg))})>>
    [] h.op = "initAssistant" -> InitAssistant(page)
    [] h.op \in Loaders -> <<[Nested(page, h.op) EXCEPT !.catch = "handler"]>>
    [] h.op \in Mutations(page) ->
         <<Await({MutEndpoint(h.op)}, "handler", {})>>
           \o (IF RefreshAfter(page, h.op) = "none" THEN <<>>
               ELSE <<Nested(page, RefreshAfter(page, h.op))>>)
    [] h.op = "unlock" ->
         <<Await({"vault.auth"}, "handler", {"vault.pin", "vault.unlocked"}),
           Nested(page, "loadVaultItems")>>
    [] h.op = "newThread" ->
         <<Await({"assistant.createThread"}, "handler", {}),
           Await({"assistant.threads"}, "handler",
                 {"assistant.threads", "assistant.threadId"}),
           Nested(page, "loadMessages")>>
    [] h.op = "sendAssistantMessage" ->
         <<Await({"assistant.send"}, "handler", {}), Nested(page, "loadMessages")>>
    [] h.op = "ragSearch" -> <<Await({"rag.search"}, "handler", {})>>
    [] h.op = "backup"    -> <<Await({"dev.backup"}, "handler", {})>>
    [] OTHER              -> <<Await({"dev.restore"}, "handler", {})>>

\* The awaits of an action, in order.
Program(page, h) ==
  IF page = "dashboard" THEN DashboardProgram(h)
  ELSE IF page = "server" THEN ServerProgram(h)
  ELSE HubProgram(page, h)

\* What the user can start on a page once its script has started.
Handlers(page) ==
  CASE page \in Hubs ->
         {H(op) : op \in Mutations(page)
                    \cup {"unlock", "newThread", "sendAssistantMessage", "loadMessages",
                          "backup", "restore", "refreshDev", "refreshDevConfig"}
                    \cup (IF page = "work" THEN {"ragSearch"} ELSE {})}
           \cup {[op |-> "activateTab", arg |-> tab] : tab \in TAB_NAMES(page) \ {"home"}}
    [] page = "server" ->
         {H(op) : op \in {"loadStatus", "loadConfig", "loadProviders", "saveCredentials",
                          "saveConfig", "pingProvider", "pingAllProviders", "testStorage",
                          "sendTestRequest", "backupDatabase", "restoreDatabase"}}
    [] OTHER ->
         {H(op) : op \in {"refreshModels", "sendMessage", "ping", "testStorage",
                          "saveConfig"}}

\* The requests a page's startup makes when nothing fails.
StartupRequests(page) ==
  CASE page \in Hubs     -> {"env", "dashboard"}
    [] page = "server"   -> {"dev.status", "settings.config", "env", "assistant.providers"}
    [] OTHER             -> {"/config", "/models", "/uptime"}

\* The catch blocks of the hubs and of the server page show a toast; the
\* dashboard's writes to the console.
Notifies(page) == IF page = "dashboard" THEN 0 ELSE 1

CaughtByHandlerOnly(catch) == catch = "handler"

\* A rejection inside a try block goes to its catch.
Caught(catch) == catch # "none"

\* A function called: it runs to its first await.
Enter(page, h) == [h |-> h, pc |-> 1, pend |-> Program(page, h)[1].eps]

EntersOf(page, hs) == UNION {Program(page, c)[1].eps : c \in hs}

FlagsNeverSet(page, have) == [tab \in TAB_NAMES(page) |-> FALSE]

\* The flags of state.tabsLoaded, all absent or false in the literal.
Flags(page, have) ==
  [tab \in TAB_NAMES(page) |-> ("tabsLoaded." \o tab) \in have]

\* have and dom last for the life of the page, the other fields tell of
\* the action under way; acts counts the actions started.
RunInit ==
  run \in [page : Pages, phase : {"loaded"}, act : {H("-")}, threads : {{}},
           toasts : {0}, failed : {{}}, rejected : {FALSE}, written : {{}},
           issued : {{}}, listening : {{}}, have : {{}}, dom : {{}}, acts : {0}]

\* An action starts: its synchronous part, up to the first awaits.
Begin(h) ==
  LET first  == Program(run.page, h)[1]
      sync   == first.eps = {}
      again  == h.op = "activateTab" /\ ~ShouldLoad(Flags(run.page, run.have), h.arg)
      starts == IF again THEN {} ELSE IF sync THEN first.spawn ELSE {h}
      writes == IF sync /\ ~again THEN first.writes ELSE {} IN
  run' = [run EXCEPT !.phase = IF starts = {} THEN "idle" ELSE "busy",
                     !.act = h,
                     !.threads = {Enter(run.page, c) : c \in starts},
                     !.toasts = 0, !.failed = {}, !.rejected = FALSE,
                     !.written = writes,
                     !.have = @ \cup writes,
                     !.acts = @ + 1,
                     !.issued = EntersOf(run.page, starts),
                     !.listening = @ \cup (IF sync THEN first.listen ELSE {})]

\* The page's startup: the DOMContentLoaded handler, or the dashboard's
\* immediately invoked function.
Startup == run.phase = "loaded" /\ Begin(H("startup"))

\* The user starts an action when the last one has ended.
Act(h) ==
  /\ run.phase = "idle" /\ run.acts <= MaxActions
  /\ h \in Handlers(run.page)
  /\ Begin(h)

\* A facade call settles.  skip: the optional call that comes next is not
\* made.
Settle(t, e, ok, skip) ==
  LET prog  == Program(run.page, t.h)
      s     == prog[t.pc]
      done  == ok /\ t.pend = {e}
      on    == done \/ (~ok /\ s.catch = "own")
      nxt   == IF skip THEN t.pc + 2 ELSE t.pc + 1
      more  == on /\ nxt <= Len(prog)
      rest  == run.threads \ {t}
      next  == (IF ok /\ ~done THEN {[t EXCEPT !.pend = t.pend \ {e}]} ELSE {})
                 \cup (IF more THEN {[t EXCEPT !.pc = nxt, !.pend = prog[nxt].eps]} ELSE {})
                 \cup (IF done THEN {Enter(run.page, c) : c \in s.spawn} ELSE {})
      wrote == (IF done THEN s.writes ELSE {})
                 \cup (IF on THEN s.after ELSE {})
                 \cup (IF skip THEN prog[t.pc + 1].writes ELSE {}) IN
  /\ run.phase = "busy" /\ t \in run.threads /\ e \in t.pend
  /\ skip => (on /\ t.pc + 1 <= Len(prog) /\ prog[t.pc + 1].opt)
  /\ run' = [run EXCEPT
       !.threads = rest \cup next,
       !.phase = IF rest \cup next = {} THEN "idle" ELSE "busy",
       !.failed = IF ok THEN @ ELSE @ \cup {e},
       !.toasts = IF ~ok /\ Caught(s.catch) THEN @ + Notifies(run.page) ELSE @,
       !.rejected = @ \/ (~ok /\ ~Caught(s.catch)),
       !.written = @ \cup wrote,
       !.have = @ \cup wrote,
       !.dom = IF done THEN Paint(@, Renders(run.page, s.render, run.have \cup wrote))
                       ELSE @,
       !.issued = @ \cup (IF more THEN prog[nxt].eps ELSE {})
                    \cup (IF done THEN EntersOf(run.page, s.spawn) ELSE {}),
       !.listening = @ \cup (IF on THEN s.listen ELSE {})]

\* The scripts followed call by call are not.
OthersOff == DashOff /\ HubOff /\ FetchOff /\ PartsOff

OthersIdle == UNCHANGED <<dashVars, hubVars, tabVars, vaultVars, fetchVars, partVars>>

RunNext ==
  \/ Startup /\ OthersIdle
  \/ (\E h \in Handlers(run.page) : Act(h)) /\ OthersIdle
  \/ (\E t \in run.threads : \E e \in t.pend : \E ok, skip \in BOOLEAN :
        Settle(t, e, ok, skip)) /\ OthersIdle

RunStart == RunInit /\ OthersOff

SpecRun == RunStart /\ [][RunNext]_vars

(***************************************************************************)
(* Claims about failures of facade calls                                   *)
(***************************************************************************)
ActionEnded == run.phase = "idle"

\* C18: in every action of the hubs and of the server page, a facade call
\* that fails is caught inside the action: at least one toast is shown and
\* no rejection leaves the handler.
C18_FailureCaughtAndToasted ==
  run.page \in Hubs \cup {"server"} =>
    /\ ~run.rejected
    /\ run.failed # {} => run.toasts >= 1

C18_Witness ==
  /\ run.page = "work" /\ ActionEnded
  /\ run.act = H("createProject")
  /\ run.failed = {"tasks.list"}
  /\ run.toasts = 1 /\ ~run.rejected

\* C19: when a facade call of an action has failed, every field of `state`
\* is as it was before the action started.
C19_FailureLeavesState ==
  (ActionEnded /\ run.failed # {}) => run.written = {}

\* C20: on every page, when one startup request has failed the other
\* startup requests have still been made and the listeners are registered.
C20_StartupSurvivesFailure ==
  (ActionEnded /\ run.act = H("startup") /\ Cardinality(run.failed) = 1) =>
    /\ StartupRequests(run.page) \subseteq run.issued
    /\ "page" \in run.listening

\* The loaders a page's startup starts together, in the order of the code.
StartupLoads(page) ==
  IF page = "server"
    THEN <<"loadStatus", "loadConfig", "loadEnv", "loadProviders">>
    ELSE <<"loadEnv", "loadHome">>

\* The document after the loaders have fulfilled one after the other, in
\* the order given.
RECURSIVE RenderedInOrder(_, _, _, _)
RenderedInOrder(page, loaders, have, dom) ==
  IF loaders = <<>> THEN dom
  ELSE LET now2 == have \cup Writes(page, Head(loaders)) IN
       RenderedInOrder(page, Tail(loaders), now2,
                       Paint(dom, Renders(page, Head(loaders), now2)))

\* C21: when the loads a page's startup starts together have all fulfilled,
\* the state and the rendered values are those of the responses arriving
\* in the order of the calls, whatever order they arrived in; the
\* server-host label shows the loaded config.
C21_ArrivalOrderIrrelevant ==
  (ActionEnded /\ run.act = H("startup") /\ run.failed = {}
     /\ run.page \in Hubs \cup {"server"}) =>
    /\ run.dom = RenderedInOrder(run.page, StartupLoads(run.page), {}, {})
    /\ run.page = "server" => <<"server-host", "config">> \in run.dom

\* C26: a tab activated once has its tabsLoaded flag set although the load
\* the activation started failed, and an activation of a tab whose flag is
\* set makes no request and starts nothing.
C26_FailedLoadNotRetried ==
  /\ [](run.page \in Hubs /\ run.act.op = "activateTab" =>
          ("tabsLoaded." \o run.act.arg) \in run.have)
  /\ [][(run.page \in Hubs /\ run'.act.op = "activateTab" /\ run'.acts # run.acts
          /\ ("tabsLoaded." \o run'.act.arg) \in run.have) =>
         (run'.issued = {} /\ run'.threads = {} /\ run'.have = run.have
          /\ run'.dom = run.dom)]_vars

\* the projects tab is activated again after its first load failed: its
\* flag is set, its lists were never loaded and nothing is requested
C26_Witness ==
  /\ run.page = "work" /\ ActionEnded
  /\ run.act = [op |-> "activateTab", arg |-> "projects"]
  /\ run.acts = 3 /\ run.issued = {}
  /\ "tabsLoaded.projects" \in run.have
  /\ "projects" \notin run.have /\ "projects" \notin {p[1] : p \in run.dom}

(***************************************************************************)
(* drawSparkline (app.js), applied to a series and a canvas size           *)
(***************************************************************************)
\* The longest series drawn.
MaxLen == 3

\* Samples: a failed ping (-1) and latencies below, at and above 100 ms.
Samples == {-1, 0, 50, 100, 250}

\* canvas.clientWidth and canvas.clientHeight.
Sizes == {0, 40, 300}

Series == UNION {[1..n -> Samples] : n \in 0..MaxLen}

\* A quotient num/den the script computes, kept as its two operands.
Frac(num, den) == [num |-> num, den |-> den]

Whole(n) == Frac(n, 1)

Largest(S) == CHOOSE m \in S : \A x \in S : x <= m

\* Math.max(pingSeries.length - 1, 1)
StepDivisor(series) == Largest({Len(series) - 1, 1})

ScaleMaxNoFloor(series) ==
  Largest({IF series[i] < 0 THEN 0 ELSE series[i] : i \in 1..Len(series)})

\* Math.max(...values, 100), values being the series with failures as 0.
ScaleMax(series) ==
  Largest({IF series[i] < 0 THEN 0 ELSE series[i] : i \in 1..Len(series)} \cup {100})

\* One call on the 2d context, with its two coordinates (width and height
\* for clearRect, none for beginPath and stroke).
Call(op, x, y) == [op |-> op, x |-> x, y |-> y]

\* The callback of forEach for the sample at index i (from 0):
\* x = i * (w / step divisor), y = h - 2 or h - (v / max) * h.
Point(series, i, w, h) ==
  LET v   == series[i + 1]
      max == ScaleMax(series)
      x   == Frac(i * w, StepDivisor(series))
      y   == IF v < 0 THEN Whole(h - 2) ELSE Frac(h * max - v * h, max) IN
  Call(IF i = 0 THEN "moveTo" ELSE "lineTo", x, y)

Path(series, w, h) ==
  <<Call("beginPath", Whole(0), Whole(0))>>
    \o [k \in 1..Len(series) |-> Point(series, k - 1, w, h)]
    \o <<Call("stroke", Whole(0), Whole(0))>>

DrawSparklineNoReturn(series, w, h) ==
  <<Call("clearRect", Whole(w), Whole(h))>> \o Path(series, w, h)

\* The calls drawSparkline makes on the context, in order.
DrawSparkline(series, w, h) ==
  <<Call("clearRect", Whole(w), Whole(h))>>
    \o (IF Len(series) = 0 THEN <<>> ELSE Path(series, w, h))

DrawInit ==
  canvas \in [series : Series, clientWidth : Sizes, clientHeight : Sizes,
              width : {300}, height : {150}, calls : {<<>>}, drawn : {FALSE}]

\* drawSparkline(): the canvas takes its client size, then the calls.
Draw ==
  /\ ~canvas.drawn
  /\ canvas' = [canvas EXCEPT
       !.width = canvas.clientWidth, !.height = canvas.clientHeight,
       !.calls = DrawSparkline(canvas.series, canvas.clientWidth, canvas.clientHeight),
       !.drawn = TRUE]

DrawIdle ==
  UNCHANGED <<dashVars, hubVars, tabVars, vaultVars, fetchVars, runVars, toast, cache, chat>>

DrawNext == Draw /\ DrawIdle

DrawStart ==
  /\ DrawInit /\ DashOff /\ HubOff /\ FetchOff /\ RunOff
  /\ toast = <<>> /\ cache = <<>> /\ chat = <<>>

SpecDraw == DrawStart /\ [][DrawNext]_vars

\* The calls that draw something.
Drawing == {"beginPath", "moveTo", "lineTo", "stroke"}

\* C22: drawSparkline on an empty pingSeries clears the canvas and makes no
\* other drawing call.
C22_EmptySeriesOnlyClears ==
  (canvas.drawn /\ canvas.series = <<>>) =>
    /\ canvas.calls = <<Call("clearRect", Whole(canvas.width), Whole(canvas.height))>>
    /\ \A k \in 1..Len(canvas.calls) : canvas.calls[k].op \notin Drawing

C22_Witness ==
  /\ canvas.drawn /\ canvas.series = <<>>
  /\ canvas.width = 300 /\ canvas.height = 40
  /\ Len(canvas.calls) = 1

\* C23: for a non-empty series no quotient of drawSparkline has a zero
\* divisor: the y divisor is the largest of 100 and the samples with
\* failures as 0, so at least 100, the x divisor is max(length - 1, 1), so
\* at least 1; a failed sample is plotted at h - 2, on the baseline, and
\* counts as 0 in the scale, so that every other y lies between 0 and h.
C23_NoZeroDivisor ==
  (canvas.drawn /\ canvas.series # <<>>) =>
    /\ Len(canvas.calls) = Len(canvas.series) + 3
    /\ \A i \in 1..Len(canvas.series) :
         LET c == canvas.calls[i + 2]
             v == canvas.series[i] IN
         /\ c.op = IF i = 1 THEN "moveTo" ELSE "lineTo"
         /\ c.x.den >= 1 /\ c.y.den >= 1
         /\ c.x.den = (IF Len(canvas.series) = 1 THEN 1 ELSE Len(canvas.series) - 1)
         /\ c.x.num = (i - 1) * canvas.width
         /\ v < 0 => c.y = Whole(canvas.height - 2)
         /\ v >= 0 =>
              /\ c.y.den >= 100
              /\ \A j \in 1..Len(canvas.series) : c.y.den >= canvas.series[j]
              /\ c.y.den \in {100} \cup {canvas.series[j] : j \in 1..Len(canvas.series)}
              /\ 0 <= c.y.num /\ c.y.num <= canvas.height * c.y.den

\* failures and zero latencies only, on a canvas with a size
C23_Witness ==
  /\ canvas.drawn /\ canvas.series = <<-1, 0, -1>>
  /\ canvas.width = 300 /\ canvas.height = 40
  /\ canvas.calls[4].y = Frac(4000, 100)

(***************************************************************************)
(* showToast (monky-common.js) and its two timers                          *)
(***************************************************************************)
\* The calls of showToast in one life of a page.
MaxToasts == 4

Variants == {"info", "danger"}

\* The toast elements created so far.
ToastIds == 1..MaxToasts

\* document.querySelector('.toast-container'): the first container in the
\* document, none (0) when there is none.  Containers are numbered as
\* they are appended to the body.
QuerySelector(body) == IF body = {} THEN 0 ELSE CHOOSE c \in body : \A o \in body : c <= o

EmptiedAlways(inside, c) == TRUE

\* !container.childElementCount
Emptied(inside, c) == ~\E p \in inside : p[2] = c

Timer(kind, id, c) == [kind |-> kind, toast |-> id, box |-> c]

\* Nothing has called showToast yet, the document has no container.
ToastInit ==
  toast = [made |-> 0, boxes |-> 0, body |-> {}, inside |-> {}, timers |-> {},
           faded |-> {}, tone |-> <<>>]

\* showToast(message, variant)
ShowToast(variant) ==
  LET found == QuerySelector(toast.body)
      c     == IF found = 0 THEN toast.boxes + 1 ELSE found
      id    == toast.made + 1 IN
  /\ toast.made < MaxToasts
  /\ toast' = [toast EXCEPT
       !.made = id,
       !.boxes = IF found = 0 THEN c ELSE @,
       !.body = @ \cup {c},
       !.inside = @ \cup {<<id, c>>},
       !.tone = Append(@, variant),
       !.timers = @ \cup {Timer("fade", id, c), Timer("remove", id, c)}]

\* The callback of the 3200 ms timer.
Fade(t) ==
  /\ t \in toast.timers /\ t.kind = "fade"
  /\ toast' = [toast EXCEPT !.timers = @ \ {t}, !.faded = @ \cup {t.toast}]

\* The callback of the 3800 ms timer, due after the 3200 ms timer of the
\* same call: toast.remove(), then container.remove() when it is empty.
Remove(t) ==
  LET left == {p \in toast.inside : p[1] # t.toast} IN
  /\ t \in toast.timers /\ t.kind = "remove"
  /\ Timer("fade", t.toast, t.box) \notin toast.timers
  /\ toast' = [toast EXCEPT
       !.timers = @ \ {t},
       !.inside = left,
       !.body = IF Emptied(left, t.box) THEN @ \ {t.box} ELSE @]

ToastIdle ==
  UNCHANGED <<dashVars, hubVars, tabVars, vaultVars, fetchVars, runVars, canvas, cache, chat>>

TimerFires == \E t \in toast.timers : Fade(t) \/ Remove(t)

ToastNext ==
  \/ (\E v \in Variants : ShowToast(v)) /\ ToastIdle
  \/ (\E t \in toast.timers : Fade(t)) /\ ToastIdle
  \/ (\E t \in toast.timers : Remove(t)) /\ ToastIdle

ToastStart ==
  /\ ToastInit /\ DashOff /\ HubOff /\ FetchOff /\ RunOff
  /\ canvas = <<>> /\ cache = <<>> /\ chat = <<>>

SpecToast == ToastStart /\ [][ToastNext]_vars

\* The event loop runs the callback of every timer that is due.
SpecToastLive == SpecToast /\ WF_vars(TimerFires /\ ToastIdle)

\* The toast element is in the document.
Shown(id) == \E p \in toast.inside : p[1] = id /\ p[2] \in toast.body

\* C30: every toast shown is eventually out of the document; a toast that
\* is in a container is in one attached to the document; an attached
\* container has a toast, a container leaves the document in the step
\* that removes its last toast and in no other; and when no timer is
\* pending there is no toast and no container.
C30_ToastsGoAway ==
  /\ \A id \in ToastIds : Shown(id) ~> ~Shown(id)
  /\ [](/\ \A p \in toast.inside : p[2] \in toast.body
        /\ \A c \in toast.body : \E p \in toast.inside : p[2] = c
        /\ \A id \in 1..toast.made :
             (\E c \in 1..toast.boxes : Timer("remove", id, c) \in toast.timers)
               <=> (\E p \in toast.inside : p[1] = id)
        /\ toast.timers = {} => (toast.inside = {} /\ toast.body = {}))
  /\ [][\A c \in toast.body :
          c \notin toast'.body <=>
            /\ ~\E p \in toast'.inside : p[2] = c
            /\ toast'.inside # toast.inside]_vars

\* three overlapping calls: the first toast has been removed, the two
\* later ones are still shown in the container the first call made
C30_Witness ==
  /\ toast.made = 3 /\ toast.boxes = 1
  /\ ~Shown(1) /\ Shown(2) /\ Shown(3)
  /\ toast.body = {1}

(***************************************************************************)
(* The projects tab: state.projects, state.tasks and state.notes against   *)
(* the backend's lists, over mutations that overlap                        *)
(***************************************************************************)
\* The mutations started on the tab, and how many may be under way at once.
MaxMutations == 3

MaxOverlap == 2

Lists == {"projects", "tasks", "notes"}

\* A list holds entries <<id, status>>; the backend numbers what it creates.
Created(id) == <<id, "open">>

Patched(entry) == <<entry[1], IF entry[2] = "open" THEN "done" ELSE "open">>

Ids(list) == {e[1] : e \in list}

\* What the backend does to a list for api.*.create, update and remove;
\* update and remove of an id it does not hold are refused.
Accepts(op, list, id) == op = "create" \/ id \in Ids(list)

Applied(op, list, id) ==
  CASE op = "create" -> list \cup {Created(id)}
    [] op = "update" -> {IF e[1] = id THEN Patched(e) ELSE e : e \in list}
    [] OTHER         -> {e \in list : e[1] # id}

\* The tab has loaded the lists of a backend that holds nothing yet.
CacheInit ==
  cache = [srv |-> [l \in Lists |-> {}], cached |-> [l \in Lists |-> {}],
           flights |-> {}, made |-> 0, ids |-> 0, failed |-> FALSE]

\* A create form is submitted, or the status select or the delete button
\* of a rendered entry is used: the handler sends its mutating request.
StartMutation(op, l, id) ==
  /\ cache.made < MaxMutations
  /\ Cardinality(cache.flights) < MaxOverlap
  /\ IF op = "create" THEN id = 0 ELSE id \in Ids(cache.cached[l])
  /\ cache' = [cache EXCEPT
       !.made = @ + 1,
       !.flights = @ \cup {[n |-> cache.made + 1, op |-> op, list |-> l, id |-> id,
                            stage |-> "mutate", read |-> {},
                            snap |-> [k \in Lists |-> {}]]}]

\* The backend answers the mutating request; on success the handler calls
\* refreshProjectsSection, which sends the three list requests.
MutationAnswered(f, ok) ==
  LET id == IF f.op = "create" THEN cache.ids + 1 ELSE f.id IN
  /\ f \in cache.flights /\ f.stage = "mutate"
  /\ ok => Accepts(f.op, cache.srv[f.list], id)
  /\ cache' = IF ok
       THEN [cache EXCEPT
              !.srv[f.list] = Applied(f.op, @, id),
              !.ids = IF f.op = "create" THEN id ELSE @,
              !.flights = (@ \ {f}) \cup {[f EXCEPT !.stage = "fetch"]}]
       ELSE [cache EXCEPT !.flights = @ \ {f}, !.failed = TRUE]

\* The backend answers one of the three list requests with the list as it
\* is then; a failed one rejects the Promise.all.
ListAnswered(f, l, ok) ==
  /\ f \in cache.flights /\ f.stage = "fetch" /\ l \notin f.read
  /\ cache' = IF ok
       THEN [cache EXCEPT
              !.flights = (@ \ {f}) \cup {[f EXCEPT !.read = @ \cup {l},
                                                      !.snap[l] = cache.srv[l]]}]
       ELSE [cache EXCEPT !.flights = @ \ {f}, !.failed = TRUE]

\* The Promise.all of refreshProjectsSection has fulfilled: the three
\* fields are assigned.
RefreshProjectsSection(f) ==
  /\ f \in cache.flights /\ f.stage = "fetch" /\ f.read = Lists
  /\ cache' = [cache EXCEPT !.cached = f.snap, !.flights = @ \ {f}]

CacheIdle ==
  UNCHANGED <<dashVars, hubVars, tabVars, vaultVars, fetchVars, runVars, canvas, toast, chat>>

CacheNext ==
  \/ (\E op \in {"create", "update", "remove"} : \E l \in Lists :
        \E id \in 0..MaxMutations : StartMutation(op, l, id)) /\ CacheIdle
  \/ (\E f \in cache.flights : \E ok \in BOOLEAN : MutationAnswered(f, ok)) /\ CacheIdle
  \/ (\E f \in cache.flights : \E l \in Lists : \E ok \in BOOLEAN :
        ListAnswered(f, l, ok)) /\ CacheIdle
  \/ (\E f \in cache.flights : RefreshProjectsSection(f)) /\ CacheIdle

CacheStart ==
  /\ CacheInit /\ DashOff /\ HubOff /\ FetchOff /\ RunOff
  /\ canvas = <<>> /\ toast = <<>> /\ chat = <<>>

SpecCache == CacheStart /\ [][CacheNext]_vars

\* C24: when no request is in flight, and none has failed, the cached
\* projects, tasks and notes are the backend's lists.
C24_CacheMatchesBackend ==
  (cache.flights = {} /\ ~cache.failed) => cache.cached = cache.srv

(***************************************************************************)
(* The assistant tab: threads, messages and the input, request by request  *)
(***************************************************************************)
\* The handlers the user starts on the tab, and how many run at once.
MaxOps == 3

MaxBusy == 2

\* What the textarea may hold, character by character.
Inputs == {<<>>, <<" ">>, <<"h", "i">>, <<" ", "h", "i", " ">>}

RECURSIVE TrimStart(_)
TrimStart(text) ==
  IF text # <<>> /\ Head(text) = " " THEN TrimStart(Tail(text)) ELSE text

RECURSIVE TrimEnd(_)
TrimEnd(text) ==
  IF text # <<>> /\ text[Len(text)] = " "
    THEN TrimEnd(SubSeq(text, 1, Len(text) - 1)) ELSE text

TrimNothing(text) == text

\* String.prototype.trim
Trim(text) == TrimEnd(TrimStart(text))

\* The backend's threads: thread k has srv[k] messages, -1 once it is
\* deleted (api.assistant.deleteThread, which these pages never call but
\* another client may).  The list is in the order of the ids.
Live(srv) == {k \in 1..Len(srv) : srv[k] >= 0}

First(ids) == CHOOSE k \in ids : \A o \in ids : k <= o

CreateThreadLost(srv) == Append(srv, -1)

\* A created thread is added to the list and has no message.
CreateThread(srv) == Append(srv, 0)

Ask(ep, thread, text) == [ep |-> ep, thread |-> thread, text |-> text]

\* What the last step did: the requests it sent and the toasts it showed.
Did(what, sent, toasts) == [what |-> what, sent |-> sent, toasts |-> toasts]

\* An async function suspended at an await: fn is the handler it belongs
\* to, pc the call awaited, arg the thread id passed down, depth how often
\* refreshThreads has called itself.
Flight(n, fn, pc, arg, text) ==
  [n |-> n, fn |-> fn, pc |-> pc, arg |-> arg, depth |-> 0, text |-> text]

\* state.assistant as written in the literal (threadId null is 0), an
\* empty textarea, no listener of the tab registered.
ChatInit ==
  /\ chat \in [srv : {<<>>, <<0>>, <<2>>, <<1, 0>>}, threads : {{}}, threadId : {0},
               messages : {[of |-> 0, n |-> 0]}, input : {<<>>}, listening : {FALSE},
               opened : {FALSE}, created : {FALSE}, flights : {{}}, ops : {0},
               last : {Did("none", {}, <<>>)}]

\* A handler is started: it runs to its first await.
Starts(f, sent) ==
  /\ chat.ops < MaxOps /\ Cardinality(chat.flights) < MaxBusy
  /\ chat' = [chat EXCEPT !.ops = @ + 1, !.flights = @ \cup {f},
                          !.last = Did(f.fn, sent, <<>>)]

\* initAssistant(), from the first activation of the tab.
InitAssistantCalled ==
  /\ ~chat.opened
  /\ chat.ops < MaxOps /\ Cardinality(chat.flights) < MaxBusy
  /\ chat' = [chat EXCEPT
       !.opened = TRUE, !.ops = @ + 1,
       !.flights = @ \cup {Flight(chat.ops + 1, "init", "providers", 0, <<>>)},
       !.last = Did("init", {Ask("providers", 0, <<>>)}, <<>>)]

\* A click on a thread button (loadMessages(thread.id)) or on refresh
\* (loadMessages(state.assistant.threadId)).
LoadMessagesCalled(id) ==
  /\ id \in chat.threads \/ (chat.listening /\ id = chat.threadId)
  /\ Starts(Flight(chat.ops + 1, "load", "messages", id, <<>>),
            {Ask("messages", id, <<>>)})

\* A click on the new-thread button.
NewThreadClicked ==
  /\ chat.listening
  /\ Starts(Flight(chat.ops + 1, "new", "create", 0, <<>>), {Ask("createThread", 0, <<>>)})

\* The user edits the textarea.
Typed(text) ==
  /\ text # chat.input
  /\ chat' = [chat EXCEPT !.input = text, !.last = Did("typed", {}, <<>>)]

\* sendAssistantMessage('main'), to its await.
SendAssistantMessage ==
  LET message == Trim(chat.input) IN
  /\ chat.listening
  /\ IF message = <<>>
       THEN chat' = [chat EXCEPT !.last = Did("sendBlocked", {}, <<"warn">>)]
       ELSE /\ chat.ops < MaxOps /\ Cardinality(chat.flights) < MaxBusy
            /\ chat' = [chat EXCEPT
                 !.ops = @ + 1,
                 !.flights = @ \cup {Flight(chat.ops + 1, "send", "send",
                                            chat.threadId, message)},
                 !.last = Did("sendIssued", {Ask("send", chat.threadId, message)}, <<>>)]

\* A rejection reaches the catch of the handler: a danger toast.
Fails(f, what) ==
  chat' = [chat EXCEPT !.flights = @ \ {f}, !.last = Did(what, {}, <<"danger">>)]

\* The function goes on to its next await.
Moves(f, pc, arg) == (chat.flights \ {f}) \cup {[f EXCEPT !.pc = pc, !.arg = arg]}

\* Another client deletes the threads; the model lets it until a create
\* request of this page has succeeded.
ThreadsDeleted ==
  /\ ~chat.created /\ Live(chat.srv) # {}
  /\ chat' = [chat EXCEPT !.srv = [k \in 1..Len(chat.srv) |-> -1],
                          !.last = Did("deleted", {}, <<>>)]

\* api.assistant.providers() of initAssistant settles; ensureThreadExists
\* is called next.
ProvidersAnswered(f, ok) ==
  /\ f \in chat.flights /\ f.pc = "providers"
  /\ IF ok
       THEN chat' = [chat EXCEPT !.flights = Moves(f, "ensure", 0),
                                !.last = Did("providers", {Ask("threads", 0, <<>>)}, <<>>)]
       ELSE Fails(f, "initFailed")

\* api.assistant.threads() of ensureThreadExists settles: with a thread in
\* the list its id is taken and the caller goes on to refreshThreads with
\* state.assistant.threadId, else createThread is called.
EnsureThreadExists(f, ok) ==
  /\ f \in chat.flights /\ f.pc = "ensure"
  /\ IF ~ok THEN Fails(f, "ensureFailed")
     ELSE IF Live(chat.srv) = {}
       THEN chat' = [chat EXCEPT !.flights = Moves(f, "create", 0),
                                !.last = Did("ensure", {Ask("createThread", 0, <<>>)}, <<>>)]
       ELSE chat' = [chat EXCEPT !.threadId = First(Live(chat.srv)),
                                !.flights = Moves(f, "threads", First(Live(chat.srv))),
                                !.last = Did("ensure", {Ask("threads", 0, <<>>)}, <<>>)]

\* api.assistant.createThread() settles, in ensureThreadExists (the id is
\* stored) or in the new-thread handler (a toast); refreshThreads is
\* called next with the new id.
ThreadCreated(f, ok) ==
  LET made == CreateThread(chat.srv)
      id   == Len(chat.srv) + 1 IN
  /\ f \in chat.flights /\ f.pc = "create"
  /\ IF ~ok THEN Fails(f, "createFailed")
     ELSE chat' = [chat EXCEPT
            !.srv = made,
            !.created = TRUE,
            !.threadId = IF f.fn = "new" THEN @ ELSE id,
            !.flights = Moves(f, "threads", id),
            !.last = Did("created", {Ask("threads", 0, <<>>)},
                         IF f.fn = "new" THEN <<"success">> ELSE <<>>)]

\* api.assistant.threads() of refreshThreads(selectId) settles: an empty
\* list sends it through ensureThreadExists and into itself again, else
\* renderAssistantThreads(selectId) and loadMessages(selectId).
RefreshThreads(f, ok) ==
  LET threads  == Live(chat.srv)
      selectId == IF f.arg # 0 THEN f.arg
                  ELSE IF chat.threadId # 0 THEN chat.threadId ELSE First(threads) IN
  /\ f \in chat.flights /\ f.pc = "threads"
  /\ IF ~ok THEN Fails(f, "refreshFailed")
     ELSE IF threads = {}
       THEN chat' = [chat EXCEPT
              !.threads = {},
              !.flights = (@ \ {f}) \cup {[f EXCEPT !.pc = "ensure", !.arg = 0,
                                                     !.depth = @ + 1]},
              !.last = Did("refreshedEmpty", {Ask("threads", 0, <<>>)}, <<>>)]
       ELSE chat' = [chat EXCEPT
              !.threads = threads,
              !.threadId = selectId,
              !.flights = Moves(f, "messages", selectId),
              !.last = Did("refreshed", {Ask("messages", selectId, <<>>)}, <<>>)]

\* api.assistant.messages(threadId) of loadMessages settles; loadMessages
\* catches for itself, and initAssistant, which awaited it, goes on to
\* setupAssistantEvents.
LoadMessages(f, ok) ==
  /\ f \in chat.flights /\ f.pc = "messages"
  /\ ok => f.arg \in Live(chat.srv)
  /\ chat' = [chat EXCEPT
       !.threadId = IF ok THEN f.arg ELSE @,
       !.messages = IF ok THEN [of |-> f.arg, n |-> chat.srv[f.arg]] ELSE @,
       !.listening = @ \/ f.fn = "init",
       !.flights = @ \ {f},
       !.last = Did(IF ok THEN "loaded" ELSE "loadFailed", {},
                    IF ok THEN <<>> ELSE <<"danger">>)]

\* api.assistant.send() settles: the textarea is emptied, a toast shown
\* and loadMessages(state.assistant.threadId) called.
SendAnswered(f, ok) ==
  /\ f \in chat.flights /\ f.pc = "send"
  /\ ok => f.arg \in Live(chat.srv)
  /\ IF ~ok THEN Fails(f, "sendFailed")
     ELSE chat' = [chat EXCEPT
            !.srv[f.arg] = @ + 1,
            !.input = <<>>,
            !.flights = Moves(f, "messages", chat.threadId),
            !.last = Did("sendOk", {Ask("messages", chat.threadId, <<>>)}, <<"success">>)]

ChatIdle ==
  UNCHANGED <<dashVars, hubVars, tabVars, vaultVars, fetchVars, runVars, canvas, toast, cache>>

\* A request of the tab is answered.
Answered ==
  \E f \in chat.flights : \E ok \in BOOLEAN :
    \/ ProvidersAnswered(f, ok) \/ EnsureThreadExists(f, ok) \/ ThreadCreated(f, ok)
    \/ RefreshThreads(f, ok) \/ LoadMessages(f, ok) \/ SendAnswered(f, ok)

ChatNext ==
  \/ InitAssistantCalled /\ ChatIdle
  \/ (\E id \in 0..(MaxOps + 2) : LoadMessagesCalled(id)) /\ ChatIdle
  \/ ThreadsDeleted /\ ChatIdle
  \/ NewThreadClicked /\ ChatIdle
  \/ (\E text \in Inputs : Typed(text)) /\ ChatIdle
  \/ SendAssistantMessage /\ ChatIdle
  \/ (\E f \in chat.flights : \E ok \in BOOLEAN : ProvidersAnswered(f, ok)) /\ ChatIdle
  \/ (\E f \in chat.flights : \E ok \in BOOLEAN : EnsureThreadExists(f, ok)) /\ ChatIdle
  \/ (\E f \in chat.flights : \E ok \in BOOLEAN : ThreadCreated(f, ok)) /\ ChatIdle
  \/ (\E f \in chat.flights : \E ok \in BOOLEAN : RefreshThreads(f, ok)) /\ ChatIdle
  \/ (\E f \in chat.flights : \E ok \in BOOLEAN : LoadMessages(f, ok)) /\ ChatIdle
  \/ (\E f \in chat.flights : \E ok \in BOOLEAN : SendAnswered(f, ok)) /\ ChatIdle

ChatStart ==
  /\ ChatInit /\ DashOff /\ HubOff /\ FetchOff /\ RunOff
  /\ canvas = <<>> /\ toast = <<>> /\ cache = <<>>

SpecChat == ChatStart /\ [][ChatNext]_vars

\* Every request is answered, with a response or an error.
SpecChatLive == SpecChat /\ WF_vars(Answered /\ ChatIdle)

\* C27: when no request of the tab is in flight (and initAssistant has
\* registered the tab's listeners), state.assistant.messages
\* are those of the thread state.assistant.threadId names: they were
\* loaded from it, or there is none on either side.
C27_MessagesOfCurrentThread ==
  (chat.flights = {} /\ chat.listening) =>
    \/ chat.messages.of = chat.threadId
    \/ /\ chat.messages.n = 0
       /\ chat.threadId \in Live(chat.srv) /\ chat.srv[chat.threadId] = 0

Blank(text) == \A k \in 1..Len(text) : text[k] = " "

\* C29: sendAssistantMessage on a blank input sends nothing, starts
\* nothing and shows a warning toast; on another input it sends one send
\* request and leaves the input; when the send succeeds the input is
\* emptied and the messages of the current thread are requested; when it
\* fails the input stays, nothing is requested and a danger toast is shown.
C29_SendClearsOnSuccessOnly ==
  [][/\ chat'.last.what = "sendBlocked" =>
          /\ Blank(chat.input) /\ chat'.last.sent = {}
          /\ chat'.flights = chat.flights /\ chat'.input = chat.input
          /\ chat'.last.toasts = <<"warn">>
     /\ chat'.last.what = "sendIssued" =>
          /\ ~Blank(chat.input) /\ chat'.input = chat.input
          /\ Cardinality(chat'.last.sent) = 1
          /\ \A r \in chat'.last.sent : r.ep = "send" /\ r.thread = chat.threadId
          /\ Cardinality(chat'.flights) = Cardinality(chat.flights) + 1
     /\ chat'.last.what = "sendOk" =>
          /\ chat'.input = <<>>
          /\ chat'.last.sent = {Ask("messages", chat.threadId, <<>>)}
     /\ chat'.last.what = "sendFailed" =>
          /\ chat'.input = chat.input /\ chat'.last.sent = {}
          /\ chat'.last.toasts = <<"danger">>
          /\ Cardinality(chat'.flights) = Cardinality(chat.flights) - 1
    ]_vars

\* a send has failed and the typed text, spaces included, is still there
C29_Witness ==
  /\ chat.last.what = "sendFailed"
  /\ chat.input = <<" ", "h", "i", " ">>
  /\ chat.flights = {}

=============================================================================
